---- MODULE Spec2Model ----
(***************************************************************************)
(* State-machine model of voxblox_ros/src/tsdf_server.cc (TsdfServer):     *)
(* rate-gated ingest queues, pose lookup with retry, the pointcloud        *)
(* deintegration queue (sliding window), lazy pruning and submap creation. *)
(*                                                                         *)
(* Abstractions of the external collaborators:                             *)
(*  - ros::Time / ros::Duration are integers (ticks); ros::Time() is 0.    *)
(*  - a Transformation is its position on one axis (an integer); the       *)
(*    norm of a position difference is the absolute value.                 *)
(*  - a point cloud buffer (ptcloud_C / colors, one shared_ptr pair per    *)
(*    message) is identified by the id of the message it was built from.   *)
(*  - the TSDF layer maps a block index (the position the observation was  *)
(*    fused at) to the set of contributions currently summed into it; a    *)
(*    block whose set is empty is allocated with all-zero weights.         *)
(*  - Transformer::lookupTransform and ICP::runICP are inputs of the call  *)
(*    that makes them: each handler is given the results (T_G_C, T_icp)    *)
(*    of the lookups that succeed during it; the next lookup fails.        *)
(***************************************************************************)
EXTENDS Integers, Sequences, FiniteSets, TLC

\* ---------------------------------------------------------------- bounds
\* total number of point cloud messages admitted in one behaviour
MaxMsgs == 3
\* message stamps are drawn from 0..MaxTime
MaxTime == 3
\* positions are drawn from 0..MaxPos
MaxPos == 2
\* number of messages of a run that fills the ingest queue
MaxBacklog == 12
\* number of submaps finished by direct calls of createNewSubmap
MaxSubmaps == 2

\* the most nodes subscribed to tsdf_map_out at a time
MaxSubscribers == 2

Times == 0..MaxTime
Positions == 0..MaxPos

\* ------------------------------------------------------- program constants
kMaxQueueSize == 10

\* characters are byte values; kLowerAsciiBound is ' ', kUpperAsciiBound '~'
kLowerAsciiBound == 32
kUpperAsciiBound == 126
Slash == 47
Chars == 0..255

\* saveSubmap has three steps: createPath, saveMap, saveTrajectory
NumSaveSteps == 3

\* paths are sequences of characters: none; "/s"; the paths a parameter may
\* hold besides: "/s/", "s", "s/", "/", "//", "/" with a byte above '~',
\* "/" with a line feed, a byte above '~' alone, "/s" with that byte and '/'
NoPath == <<>>
SubmapsPath == <<47, 115>>
Paths ==
  {NoPath, SubmapsPath, <<47, 115, 47>>, <<115>>, <<115, 47>>, <<47>>,
   <<47, 47>>, <<47, 233>>, <<47, 10>>, <<233>>, <<47, 115, 233, 47>>}

\* Threshold<T>: a value that is either unset or set to a number
UnsetThreshold == [is_set |-> FALSE, threshold |-> 0]
Threshold(v) == [is_set |-> TRUE, threshold |-> v]

\* Threshold::isSetAndLT(x): the threshold is set and is less than x
isSetAndLT(thr, x) == thr.is_set /\ thr.threshold < x

\* Point: a position, or the NaN point the submap reference starts as
NaNPoint == [nan |-> TRUE, x |-> 0]
Point(x) == [nan |-> FALSE, x |-> x]

Abs(x) == IF x < 0 THEN -x ELSE x
\* (a - b).norm()
Norm(a, b) == Abs(a - b)

Last(q) == q[Len(q)]
Range(q) == {q[i] : i \in 1..Len(q)}

VARIABLES
  \* the ROS parameters the node was started with
  ros_param,
  \* configuration, fixed by the constructor
  min_time_between_msgs_,
  pointcloud_deintegration_max_queue_length_,
  pointcloud_deintegration_max_time_interval_,
  pointcloud_deintegration_max_distance_travelled_,
  submap_max_time_interval_,
  submap_max_distance_travelled_,
  use_freespace_pointcloud_,
  enable_icp_,
  accumulate_icp_corrections_,
  publish_pointclouds_on_update_,
  publish_tsdf_map_,
  publish_pointclouds_,
  \* the sanitised directory: empty if submaps are not written to disk
  write_submaps_to_directory_,
  \* the positions the sensor takes in this run
  robot_positions,
  \* submap_pub_.getNumSubscribers()
  submap_pub_subscribers,
  \* tsdf_map_pub_.getNumSubscribers()
  tsdf_map_pub_subscribers,
  \* whether a subscriber has connected to tsdf_map_pub_ since publishMap
  \* last read their number
  tsdf_map_pub_joined,
  \* the saveSubmap calls made so far: the index written to, whether the
  \* write succeeded
  submap_folders,
  \* server state
  pointcloud_queue_,
  freespace_pointcloud_queue_,
  last_msg_time_ptcloud_,
  last_msg_time_freespace_ptcloud_,
  pointcloud_deintegration_queue_,
  tsdf_map_,
  mesh_layer_,
  map_needs_pruning_,
  num_subscribers_tsdf_map_,
  submap_counter_,
  last_published_submap_timestamp_,
  last_published_submap_position_,
  icp_corrected_transform_,
  \* number of messages admitted to a queue so far; a message that arrives
  \* carries the id num_msgs + 1, which is used up only if it is admitted
  num_msgs,
  \* what the last handler call did
  last_call

config_vars == <<min_time_between_msgs_,
  pointcloud_deintegration_max_queue_length_,
  pointcloud_deintegration_max_time_interval_,
  pointcloud_deintegration_max_distance_travelled_,
  submap_max_time_interval_, submap_max_distance_travelled_,
  use_freespace_pointcloud_, enable_icp_, accumulate_icp_corrections_,
  publish_pointclouds_on_update_, publish_tsdf_map_, publish_pointclouds_,
  write_submaps_to_directory_>>

state_vars == <<pointcloud_queue_, freespace_pointcloud_queue_,
  last_msg_time_ptcloud_, last_msg_time_freespace_ptcloud_,
  pointcloud_deintegration_queue_, tsdf_map_, mesh_layer_,
  map_needs_pruning_, num_subscribers_tsdf_map_, submap_counter_,
  last_published_submap_timestamp_, last_published_submap_position_,
  icp_corrected_transform_>>

vars == <<ros_param, config_vars, robot_positions, submap_pub_subscribers,
          tsdf_map_pub_subscribers, tsdf_map_pub_joined, submap_folders,
          state_vars, num_msgs, last_call>>

\* ------------------------------------------------------------- predicates
\* any of the three deintegration thresholds is set
pointcloudDeintegrationEnabled ==
  \/ pointcloud_deintegration_max_queue_length_.is_set
  \/ pointcloud_deintegration_max_time_interval_.is_set
  \/ pointcloud_deintegration_max_distance_travelled_.is_set

\* any of the two submap thresholds is set
submappingEnabled ==
  \/ submap_max_time_interval_.is_set
  \/ submap_max_distance_travelled_.is_set

\* the server state as one record, threaded through the operators below
Server == [
  pointcloud_queue_ |-> pointcloud_queue_,
  freespace_pointcloud_queue_ |-> freespace_pointcloud_queue_,
  last_msg_time_ptcloud_ |-> last_msg_time_ptcloud_,
  last_msg_time_freespace_ptcloud_ |-> last_msg_time_freespace_ptcloud_,
  pointcloud_deintegration_queue_ |-> pointcloud_deintegration_queue_,
  tsdf_map_ |-> tsdf_map_,
  mesh_layer_ |-> mesh_layer_,
  map_needs_pruning_ |-> map_needs_pruning_,
  num_subscribers_tsdf_map_ |-> num_subscribers_tsdf_map_,
  tsdf_map_pub_joined |-> tsdf_map_pub_joined,
  submap_counter_ |-> submap_counter_,
  last_published_submap_timestamp_ |-> last_published_submap_timestamp_,
  last_published_submap_position_ |-> last_published_submap_position_,
  icp_corrected_transform_ |-> icp_corrected_transform_,
  submap_folders |-> submap_folders,
  \* bookkeeping of the current call: the ids of the messages processed,
  \* the packets handed to the integrator for deintegration, whether
  \* clear() ran, the value returned, whether pruneMap() ran, what was
  \* published or written
  fused |-> <<>>,
  deintegrated |-> <<>>,
  cleared |-> FALSE,
  result |-> FALSE,
  pruned |-> FALSE,
  outputs |-> <<>>,
  \* the calls of runICP: the raw pose, the initial guess, the result
  icp_calls |-> <<>>]

\* ------------------------------------------------------------ TSDF layer
EmptyLayer == [b \in {} |-> {}]

Contribution(T_G_C, ptcloud_C, is_freespace_pointcloud) ==
  [T_G_C |-> T_G_C, ptcloud_C |-> ptcloud_C,
   is_freespace_pointcloud |-> is_freespace_pointcloud]

\* TsdfIntegratorBase::integratePointCloud(T_G_C, points, colors, freespace,
\* deintegrate): adds the observation's contribution to the block it falls
\* in (allocating it), or with deintegrate = true subtracts it again
integratePointCloud(layer, T_G_C, ptcloud_C, is_freespace_pointcloud, deintegrate) ==
  LET c == Contribution(T_G_C, ptcloud_C, is_freespace_pointcloud)
      old == IF T_G_C \in DOMAIN layer THEN layer[T_G_C] ELSE {}
  IN [b \in (DOMAIN layer) \cup {T_G_C} |->
        IF b = T_G_C
        THEN (IF deintegrate THEN old \ {c} ELSE old \cup {c})
        ELSE layer[b]]

\* the contributions currently summed into the layer
LiveContributions(layer) == UNION {layer[b] : b \in DOMAIN layer}

\* --------------------------------------------------- deintegration queue
PointcloudDeintegrationPacket(timestamp, T_G_C, ptcloud_C, is_freespace_pointcloud) ==
  [timestamp |-> timestamp, T_G_C |-> T_G_C, ptcloud_C |-> ptcloud_C,
   is_freespace_pointcloud |-> is_freespace_pointcloud]

\* mutant: the three predicates combined with && instead of ||
shouldDeintegratePointcloud_And(queue) ==
  /\ isSetAndLT(pointcloud_deintegration_max_queue_length_, Len(queue))
  /\ isSetAndLT(pointcloud_deintegration_max_time_interval_,
                Last(queue).timestamp - Head(queue).timestamp)
  /\ isSetAndLT(pointcloud_deintegration_max_distance_travelled_,
                Norm(Last(queue).T_G_C, Head(queue).T_G_C))

\* mutant: the queue length compared with <= instead of <
shouldDeintegratePointcloud_LengthLE(queue) ==
  \/ /\ pointcloud_deintegration_max_queue_length_.is_set
     /\ pointcloud_deintegration_max_queue_length_.threshold <= Len(queue)
  \/ isSetAndLT(pointcloud_deintegration_max_time_interval_,
                Last(queue).timestamp - Head(queue).timestamp)
  \/ isSetAndLT(pointcloud_deintegration_max_distance_travelled_,
                Norm(Last(queue).T_G_C, Head(queue).T_G_C))

\* mutant: the elapsed time compared with <= instead of <
shouldDeintegratePointcloud_TimeLE(queue) ==
  \/ isSetAndLT(pointcloud_deintegration_max_queue_length_, Len(queue))
  \/ /\ pointcloud_deintegration_max_time_interval_.is_set
     /\ pointcloud_deintegration_max_time_interval_.threshold
          <= Last(queue).timestamp - Head(queue).timestamp
  \/ isSetAndLT(pointcloud_deintegration_max_distance_travelled_,
                Norm(Last(queue).T_G_C, Head(queue).T_G_C))

\* mutant: the thresholds compared without asking whether they are set
shouldDeintegratePointcloud_IgnoresUnset(queue) ==
  \/ pointcloud_deintegration_max_queue_length_.threshold < Len(queue)
  \/ pointcloud_deintegration_max_time_interval_.threshold
       < Last(queue).timestamp - Head(queue).timestamp
  \/ pointcloud_deintegration_max_distance_travelled_.threshold
       < Norm(Last(queue).T_G_C, Head(queue).T_G_C)

\* lines 545-568: the three eviction predicates on a queue with a front and
\* a back packet
shouldDeintegratePointcloud(queue) ==
  LET oldest_pointcloud_packet == Head(queue)
      newest_pointcloud_packet == Last(queue)
      queue_length_exceeded ==
        isSetAndLT(pointcloud_deintegration_max_queue_length_, Len(queue))
      time_elapsed ==
        newest_pointcloud_packet.timestamp - oldest_pointcloud_packet.timestamp
      time_threshold_exceeded ==
        isSetAndLT(pointcloud_deintegration_max_time_interval_, time_elapsed)
      distance_travelled ==
        Norm(newest_pointcloud_packet.T_G_C, oldest_pointcloud_packet.T_G_C)
      distance_threshold_exceeded ==
        isSetAndLT(pointcloud_deintegration_max_distance_travelled_,
                   distance_travelled)
  IN queue_length_exceeded \/ time_threshold_exceeded
       \/ distance_threshold_exceeded

\* the loop condition of line 544
queueHasMoreThanOne(queue) == 1 < Len(queue)

\* mutant: pop_back instead of pop_front
deintegrateOldest_PopBack(s) ==
  LET newest == Last(s.pointcloud_deintegration_queue_)
  IN [s EXCEPT
        !.tsdf_map_ = integratePointCloud(@, newest.T_G_C, newest.ptcloud_C,
                                          newest.is_freespace_pointcloud, TRUE),
        !.pointcloud_deintegration_queue_ = SubSeq(@, 1, Len(@) - 1),
        !.map_needs_pruning_ = TRUE,
        !.deintegrated = Append(@, newest)]

\* mutant: the map is not marked
deintegrateOldest_NotMarked(s) ==
  LET oldest == Head(s.pointcloud_deintegration_queue_)
  IN [s EXCEPT
        !.tsdf_map_ = integratePointCloud(@, oldest.T_G_C, oldest.ptcloud_C,
                                          oldest.is_freespace_pointcloud, TRUE),
        !.pointcloud_deintegration_queue_ = Tail(@),
        !.deintegrated = Append(@, oldest)]

\* mutant: the packet is deintegrated with another pose than it was stored
\* with
deintegrateOldest_OtherPose(s) ==
  LET oldest == Head(s.pointcloud_deintegration_queue_)
      other == [oldest EXCEPT !.T_G_C = @ + 1]
  IN [s EXCEPT
        !.tsdf_map_ = integratePointCloud(@, other.T_G_C, other.ptcloud_C,
                                          other.is_freespace_pointcloud, TRUE),
        !.pointcloud_deintegration_queue_ = Tail(@),
        !.map_needs_pruning_ = TRUE,
        !.deintegrated = Append(@, other)]

\* lines 577-583: deintegrate the front packet, pop it, mark the map
deintegrateOldest(s) ==
  LET oldest == Head(s.pointcloud_deintegration_queue_)
  IN [s EXCEPT
        !.tsdf_map_ = integratePointCloud(@, oldest.T_G_C, oldest.ptcloud_C,
                                          oldest.is_freespace_pointcloud, TRUE),
        !.pointcloud_deintegration_queue_ = Tail(@),
        !.map_needs_pruning_ = TRUE,
        !.deintegrated = Append(@, oldest)]

RECURSIVE servicePointcloudDeintegrationQueue(_)
servicePointcloudDeintegrationQueue(s) ==
  IF ~queueHasMoreThanOne(s.pointcloud_deintegration_queue_) THEN s
  ELSE IF ~shouldDeintegratePointcloud(s.pointcloud_deintegration_queue_)
       THEN s
       ELSE servicePointcloudDeintegrationQueue(deintegrateOldest(s))

\* mutant: the packet is kept only if deintegration is enabled
integratePointcloud_OnlyIfDeintegration(s, timestamp, T_G_C, ptcloud_C, is_freespace_pointcloud) ==
  LET s1 == [s EXCEPT !.tsdf_map_ =
               integratePointCloud(@, T_G_C, ptcloud_C,
                                   is_freespace_pointcloud, FALSE)]
  IN IF pointcloudDeintegrationEnabled
     THEN [s1 EXCEPT !.pointcloud_deintegration_queue_ =
             Append(@, PointcloudDeintegrationPacket(
                         timestamp, T_G_C, ptcloud_C, is_freespace_pointcloud))]
     ELSE s1

\* mutant: a packet is kept whether or not the window is needed
integratePointcloud_AlwaysAppends(s, timestamp, T_G_C, ptcloud_C, is_freespace_pointcloud) ==
  [s EXCEPT !.tsdf_map_ =
              integratePointCloud(@, T_G_C, ptcloud_C,
                                  is_freespace_pointcloud, FALSE),
            !.pointcloud_deintegration_queue_ =
              Append(@, PointcloudDeintegrationPacket(
                          timestamp, T_G_C, ptcloud_C,
                          is_freespace_pointcloud))]

\* TsdfServer::integratePointcloud(timestamp, T_G_C, ptcloud_C, colors, fs)
integratePointcloud(s, timestamp, T_G_C, ptcloud_C, is_freespace_pointcloud) ==
  LET s1 == [s EXCEPT !.tsdf_map_ =
               integratePointCloud(@, T_G_C, ptcloud_C,
                                   is_freespace_pointcloud, FALSE)]
  IN IF pointcloudDeintegrationEnabled \/ submappingEnabled
     THEN [s1 EXCEPT !.pointcloud_deintegration_queue_ =
             Append(@, PointcloudDeintegrationPacket(
                         timestamp, T_G_C, ptcloud_C, is_freespace_pointcloud))]
     ELSE s1

\* ---------------------------------------------------------------- pruning
\* TsdfServer::pruneMap: remove the blocks without any observed voxel, clear
\* their mesh, reset the flag
pruneMap(s) ==
  LET kept == {b \in DOMAIN s.tsdf_map_ : s.tsdf_map_[b] # {}}
  IN [s EXCEPT !.tsdf_map_ = [b \in kept |-> s.tsdf_map_[b]],
               !.mesh_layer_ = @ \ ((DOMAIN s.tsdf_map_) \ kept),
               !.map_needs_pruning_ = FALSE,
               !.pruned = TRUE]

\* something computed from the map and published or written: what it is,
\* whether the map needed pruning when it was read, the submap index and
\* the trajectory that go with a submap
Output(s, kind, trajectory) ==
  [kind |-> kind, needs_pruning |-> s.map_needs_pruning_,
   index |-> s.submap_counter_, trajectory |-> trajectory]

publish(s, kind, trajectory) ==
  [s EXCEPT !.outputs = Append(@, Output(s, kind, trajectory))]

\* TsdfServer::publishPointclouds and the publishers it calls: each prunes
\* first if the map needs it
publishPointclouds(s) ==
  publish(IF s.map_needs_pruning_ THEN pruneMap(s) ELSE s,
          "pointclouds", <<>>)

\* lines 691-696: whether publishMap resets the remote map, called with
\* reset_remote_map when the number of subscribers was num_subscribers at
\* the last call and is subscribers now
resetRemoteMap(reset_remote_map, num_subscribers, subscribers) ==
  reset_remote_map \/ num_subscribers < subscribers

\* lines 697-704: the layer message, a full snapshot or the updated blocks
\* only, with the action it asks the receiver for
LayerMsg(s, only_updated, reset_remote_map) ==
  [kind |-> "tsdf_map", needs_pruning |-> s.map_needs_pruning_,
   index |-> s.submap_counter_, trajectory |-> <<>>,
   only_updated |-> only_updated,
   action |-> IF reset_remote_map THEN "kReset" ELSE "kUpdate"]

\* TsdfServer::publishMap(reset_remote_map)
publishMap(s, reset_remote_map) ==
  LET s1 == IF s.map_needs_pruning_ THEN pruneMap(s) ELSE s
      subscribers == tsdf_map_pub_subscribers
      reset == resetRemoteMap(reset_remote_map, s1.num_subscribers_tsdf_map_,
                              subscribers)
      only_updated == ~reset
      s2 == IF subscribers > 0
            THEN [s1 EXCEPT !.outputs =
                    Append(@, LayerMsg(s1, only_updated, reset))]
            ELSE s1
  IN IF ~publish_tsdf_map_
     THEN s1
     ELSE [s2 EXCEPT !.num_subscribers_tsdf_map_ = subscribers,
                     !.tsdf_map_pub_joined = FALSE]

\* mutant: the newest packet is left out of the trajectory
trajectory_OmitsNewest(queue) ==
  [i \in 1..(Len(queue) - 1) |->
     [stamp |-> queue[i].timestamp, pose |-> queue[i].T_G_C]]

\* lines 718-726 and 798-819: one stamped pose per packet of the queue
trajectory(queue) ==
  [i \in 1..Len(queue) |->
     [stamp |-> queue[i].timestamp, pose |-> queue[i].T_G_C]]

\* mutant: a trajectory that could not be written is not noticed
saveSubmapResult_IgnoresTrajectory(steps) == steps >= NumSaveSteps - 1

\* TsdfServer::saveSubmap, the value returned when the first steps of
\* createPath, saveMap, saveTrajectory succeed and the next one fails
saveSubmapResult(steps) == steps = NumSaveSteps

\* TsdfServer::saveSubmap, the files written
saveSubmapEffect(s, steps) ==
  LET s1 == IF steps >= 2 THEN publish(s, "volumetric_map.tsdf", <<>>) ELSE s
  IN IF steps >= 3
     THEN publish(s1, "robot_trajectory.traj",
                  trajectory(s.pointcloud_deintegration_queue_))
     ELSE s1

\* TsdfServer::publishSubmap; saved tells how far saveSubmap gets
publishSubmap(s, saved) ==
  LET poses == trajectory(s.pointcloud_deintegration_queue_)
      s1 == IF 0 < submap_pub_subscribers
            THEN publish(s, "submap", poses)
            ELSE s
  IN IF write_submaps_to_directory_ # NoPath
     THEN LET s2 == [saveSubmapEffect(s1, saved)
                       EXCEPT !.submap_folders =
                         Append(@, [index |-> s.submap_counter_,
                                    saved |-> saveSubmapResult(saved)])]
          IN IF saveSubmapResult(saved)
             THEN publish(s2, "new_submap_notification", <<>>)
             ELSE s2
     ELSE s1

\* TsdfServer::updateMesh: mesh every block that holds observations
updateMesh(s) ==
  LET s1 == publish([s EXCEPT !.mesh_layer_ =
                       (@ \ DOMAIN s.tsdf_map_)
                         \cup {b \in DOMAIN s.tsdf_map_ :
                                 s.tsdf_map_[b] # {}}],
                    "mesh", <<>>)
  IN IF publish_pointclouds_ /\ ~publish_pointclouds_on_update_
     THEN publishPointclouds(s1)
     ELSE s1

\* mutant: the submap counter is reset as well
clear_ResetsCounter(s) ==
  LET s1 == [s EXCEPT !.tsdf_map_ = EmptyLayer,
                      !.mesh_layer_ = {},
                      !.pointcloud_deintegration_queue_ = <<>>,
                      !.submap_counter_ = 0,
                      !.cleared = TRUE]
  IN IF publish_tsdf_map_ THEN publishMap(s1, TRUE) ELSE s1

\* TsdfServer::clear
clear(s) ==
  LET s1 == [s EXCEPT !.tsdf_map_ = EmptyLayer,
                      !.mesh_layer_ = {},
                      !.pointcloud_deintegration_queue_ = <<>>,
                      !.cleared = TRUE]
  IN IF publish_tsdf_map_ THEN publishMap(s1, TRUE) ELSE s1

\* --------------------------------------------------------------- submaps
\* mutant: both thresholds have to be exceeded
shouldCreateNewSubmapResult_And(s, current_timestamp, current_T_G_C) ==
  IF ~submappingEnabled THEN FALSE
  ELSE IF \/ s.last_published_submap_timestamp_ = 0
          \/ s.last_published_submap_position_.nan
       THEN FALSE
       ELSE /\ isSetAndLT(submap_max_time_interval_,
                          current_timestamp
                            - s.last_published_submap_timestamp_)
            /\ isSetAndLT(submap_max_distance_travelled_,
                          Norm(current_T_G_C,
                               s.last_published_submap_position_.x))

\* TsdfServer::shouldCreateNewSubmap: the decision
shouldCreateNewSubmapResult(s, current_timestamp, current_T_G_C) ==
  IF ~submappingEnabled THEN FALSE
  ELSE IF \/ s.last_published_submap_timestamp_ = 0
          \/ s.last_published_submap_position_.nan
       THEN FALSE
       ELSE LET time_elapsed ==
                  current_timestamp - s.last_published_submap_timestamp_
                time_threshold_exceeded ==
                  isSetAndLT(submap_max_time_interval_, time_elapsed)
                distance_travelled ==
                  Norm(current_T_G_C, s.last_published_submap_position_.x)
                distance_threshold_exceeded ==
                  isSetAndLT(submap_max_distance_travelled_, distance_travelled)
            IN time_threshold_exceeded \/ distance_threshold_exceeded

\* TsdfServer::shouldCreateNewSubmap: its effect on the reference state
shouldCreateNewSubmapEffect(s, current_timestamp, current_T_G_C) ==
  IF ~submappingEnabled THEN s
  ELSE IF \/ s.last_published_submap_timestamp_ = 0
          \/ s.last_published_submap_position_.nan
       THEN [s EXCEPT !.last_published_submap_timestamp_ = current_timestamp,
                      !.last_published_submap_position_ = Point(current_T_G_C)]
       ELSE s

\* mutant: the map is reset whether or not deintegration is used
createNewSubmap_AlwaysClears(s, current_timestamp, current_T_G_C) ==
  [clear(s) EXCEPT !.submap_counter_ = @ + 1,
                   !.last_published_submap_timestamp_ = current_timestamp,
                   !.last_published_submap_position_ = Point(current_T_G_C)]

\* mutant: the submap counter is left as it is
createNewSubmap_KeepsCounter(s, current_timestamp, current_T_G_C) ==
  LET s1 == IF ~pointcloudDeintegrationEnabled THEN clear(s) ELSE s
  IN [s1 EXCEPT !.last_published_submap_timestamp_ = current_timestamp,
                !.last_published_submap_position_ = Point(current_T_G_C)]

\* TsdfServer::createNewSubmap
createNewSubmap(s, current_timestamp, current_T_G_C) ==
  LET s1 == IF ~pointcloudDeintegrationEnabled THEN clear(s) ELSE s
  IN [s1 EXCEPT !.submap_counter_ = @ + 1,
                !.last_published_submap_timestamp_ = current_timestamp,
                !.last_published_submap_position_ = Point(current_T_G_C)]

\* ------------------------------------------------- processing one message
\* lines 327-350: the pose handed to the integrator.  Without ICP it is the
\* looked-up pose; with ICP it is what runICP returns (msg.T_icp)
\* mutant: the correction of the previous call is always kept
icpInitialGuess_Accumulates(s, T_G_C) ==
  s.icp_corrected_transform_ + T_G_C

\* lines 330-336: icp_corrected_transform_ * T_G_C, the correction set to
\* the identity first unless corrections are accumulated
icpInitialGuess(s, T_G_C) ==
  (IF ~accumulate_icp_corrections_ THEN 0 ELSE s.icp_corrected_transform_)
    + T_G_C

\* lines 328-350: runICP is handed the initial guess and returns msg.T_icp
refinePose(s, msg, T_G_C) ==
  IF enable_icp_
  THEN [s EXCEPT !.icp_corrected_transform_ = msg.T_icp - T_G_C,
                 !.icp_calls =
                   Append(@, [T_G_C |-> T_G_C,
                              initial_guess |-> icpInitialGuess(s, T_G_C),
                              T_G_C_refined |-> msg.T_icp])]
  ELSE s

T_G_C_refined(msg, T_G_C) == IF enable_icp_ THEN msg.T_icp ELSE T_G_C

\* lines 410-419: the queue is serviced only if deintegration is enabled
serviceIfEnabled(s) ==
  IF pointcloudDeintegrationEnabled
  THEN servicePointcloudDeintegrationQueue(s)
  ELSE s

\* mutant: the submap is published after the new one was begun
newSubmapIfAppropriate_PublishesAfter(s, stamp, T_G_C, saved) ==
  LET s1 == shouldCreateNewSubmapEffect(s, stamp, T_G_C)
  IN IF shouldCreateNewSubmapResult(s, stamp, T_G_C)
     THEN publishSubmap(createNewSubmap(s1, stamp, T_G_C), saved)
     ELSE s1

\* lines 428-432: publish the old submap and continue with a new one
newSubmapIfAppropriate(s, stamp, T_G_C, saved) ==
  LET s1 == shouldCreateNewSubmapEffect(s, stamp, T_G_C)
  IN IF shouldCreateNewSubmapResult(s, stamp, T_G_C)
     THEN createNewSubmap(publishSubmap(s1, saved), stamp, T_G_C)
     ELSE s1

\* TsdfServer::processPointCloudMessageAndInsert
processPointCloudMessageAndInsert(s, msg, T_G_C, is_freespace_pointcloud) ==
  LET s1 == refinePose(s, msg, T_G_C)
      s2 == integratePointcloud(s1, msg.stamp, T_G_C_refined(msg, T_G_C),
                                msg.id, is_freespace_pointcloud)
      s3 == serviceIfEnabled(s2)
      s4 == newSubmapIfAppropriate(s3, msg.stamp, T_G_C, msg.saved)
  IN [s4 EXCEPT !.fused = Append(@, msg.id)]

\* ----------------------------------------------------------- ingest queue
\* mutant: the newest entries are dropped instead of the oldest
dropWhileTooLong_DropsNewest(queue) ==
  IF Len(queue) >= kMaxQueueSize
  THEN SubSeq(queue, 1, kMaxQueueSize - 1)
  ELSE queue

\* mutant: nothing is dropped however long the queue is
dropWhileTooLong_Never(queue) == queue

\* lines 453-461: on a failed lookup, pop while the queue is too long
dropWhileTooLong(queue) ==
  IF Len(queue) >= kMaxQueueSize
  THEN SubSeq(queue, Len(queue) - kMaxQueueSize + 2, Len(queue))
  ELSE queue

\* mutant: the gate compares with >= instead of >
passesRateGate_GE(stamp, last_msg_time) ==
  stamp - last_msg_time >= min_time_between_msgs_

\* mutant: the gate looks at the distance in time, earlier or later
passesRateGate_EitherWay(stamp, last_msg_time) ==
  Abs(stamp - last_msg_time) > min_time_between_msgs_

\* the rate gate of insertPointcloud / insertFreespacePointcloud
passesRateGate(stamp, last_msg_time) ==
  stamp - last_msg_time > min_time_between_msgs_

Queue(s, is_freespace_pointcloud) ==
  IF is_freespace_pointcloud THEN s.freespace_pointcloud_queue_
  ELSE s.pointcloud_queue_

SetQueue(s, is_freespace_pointcloud, queue) ==
  IF is_freespace_pointcloud
  THEN [s EXCEPT !.freespace_pointcloud_queue_ = queue]
  ELSE [s EXCEPT !.pointcloud_queue_ = queue]

\* mutant: the time of the last message is not updated
enqueue_KeepsLastTime(s, msg, is_freespace_pointcloud) ==
  IF is_freespace_pointcloud
  THEN IF passesRateGate(msg.stamp, s.last_msg_time_freespace_ptcloud_)
       THEN [s EXCEPT !.freespace_pointcloud_queue_ = Append(@, msg)]
       ELSE s
  ELSE IF passesRateGate(msg.stamp, s.last_msg_time_ptcloud_)
       THEN [s EXCEPT !.pointcloud_queue_ = Append(@, msg)]
       ELSE s

\* lines 468-473 / 503-508
enqueue(s, msg, is_freespace_pointcloud) ==
  IF is_freespace_pointcloud
  THEN IF passesRateGate(msg.stamp, s.last_msg_time_freespace_ptcloud_)
       THEN [s EXCEPT !.last_msg_time_freespace_ptcloud_ = msg.stamp,
                      !.freespace_pointcloud_queue_ = Append(@, msg)]
       ELSE s
  ELSE IF passesRateGate(msg.stamp, s.last_msg_time_ptcloud_)
       THEN [s EXCEPT !.last_msg_time_ptcloud_ = msg.stamp,
                      !.pointcloud_queue_ = Append(@, msg)]
       ELSE s

\* the message at the head of the queue with what processing it will see:
\* the pose lookupTransform returns and the pose runICP refines it to
Resolved(pointcloud_msg, lookup) ==
  [id |-> pointcloud_msg.id, stamp |-> pointcloud_msg.stamp,
   T_icp |-> lookup.T_icp, saved |-> lookup.saved]

\* mutant: a head whose lookup fails is popped
RECURSIVE drainQueue_PopsUnresolved(_, _, _)
drainQueue_PopsUnresolved(s, is_freespace_pointcloud, lookups) ==
  LET queue == Queue(s, is_freespace_pointcloud)
  IN IF queue = <<>> THEN s
     ELSE IF lookups # <<>>
          THEN drainQueue_PopsUnresolved(
                 processPointCloudMessageAndInsert(
                   SetQueue(s, is_freespace_pointcloud, Tail(queue)),
                   Resolved(Head(queue), Head(lookups)),
                   Head(lookups).T_G_C, is_freespace_pointcloud),
                 is_freespace_pointcloud, Tail(lookups))
          ELSE SetQueue(s, is_freespace_pointcloud, Tail(queue))

\* the while loop around getNextPointcloudFromQueue: lookups holds the
\* results of the lookupTransform calls that succeed before one fails
RECURSIVE drainQueue(_, _, _)
drainQueue(s, is_freespace_pointcloud, lookups) ==
  LET queue == Queue(s, is_freespace_pointcloud)
  IN IF queue = <<>> THEN s
     ELSE IF lookups # <<>>
          THEN drainQueue(
                 processPointCloudMessageAndInsert(
                   SetQueue(s, is_freespace_pointcloud, Tail(queue)),
                   Resolved(Head(queue), Head(lookups)),
                   Head(lookups).T_G_C, is_freespace_pointcloud),
                 is_freespace_pointcloud, Tail(lookups))
          ELSE SetQueue(s, is_freespace_pointcloud, dropWhileTooLong(queue))

\* lines 486-492
publishOnUpdate(s) ==
  IF s.fused # <<>> /\ publish_pointclouds_on_update_
  THEN publishPointclouds(s)
  ELSE s

\* ---------------------------------------------------------------- actions
\* last_call: the call made by the last step, whether its message passed
\* the rate gate, the ids of the messages it processed, the packets it
\* handed to the integrator for deintegration, whether it ran clear()
CallRecord(s, op, admitted) ==
  [op |-> op, admitted |-> admitted, fused |-> s.fused,
   deintegrated |-> s.deintegrated, cleared |-> s.cleared,
   result |-> s.result, pruned |-> s.pruned, outputs |-> s.outputs,
   icp_calls |-> s.icp_calls]

\* the new state of the server is s
CommitServer(s, op, admitted) ==
  /\ pointcloud_queue_' = s.pointcloud_queue_
  /\ freespace_pointcloud_queue_' = s.freespace_pointcloud_queue_
  /\ last_msg_time_ptcloud_' = s.last_msg_time_ptcloud_
  /\ last_msg_time_freespace_ptcloud_' = s.last_msg_time_freespace_ptcloud_
  /\ pointcloud_deintegration_queue_' = s.pointcloud_deintegration_queue_
  /\ tsdf_map_' = s.tsdf_map_
  /\ mesh_layer_' = s.mesh_layer_
  /\ map_needs_pruning_' = s.map_needs_pruning_
  /\ num_subscribers_tsdf_map_' = s.num_subscribers_tsdf_map_
  /\ tsdf_map_pub_joined' = s.tsdf_map_pub_joined
  /\ submap_counter_' = s.submap_counter_
  /\ last_published_submap_timestamp_' = s.last_published_submap_timestamp_
  /\ last_published_submap_position_' = s.last_published_submap_position_
  /\ icp_corrected_transform_' = s.icp_corrected_transform_
  /\ submap_folders' = s.submap_folders
  /\ last_call' = CallRecord(s, op, admitted)
  /\ UNCHANGED <<ros_param, config_vars, robot_positions,
                 submap_pub_subscribers>>

\* the new state is s, the subscribers of the map are the same
Commit(s, op, admitted) ==
  /\ CommitServer(s, op, admitted)
  /\ UNCHANGED tsdf_map_pub_subscribers

\* the messages that can arrive next
NewMsgs == {[id |-> num_msgs + 1, stamp |-> t] : t \in Times}

\* what a successful lookupTransform returns for a message, what runICP
\* refines it to if ICP is enabled, and how far saveSubmap gets if the
\* message ends a submap that is written to disk
LookupResults ==
  {[T_G_C |-> p, T_icp |-> r, saved |-> w] :
     p \in robot_positions,
     r \in IF enable_icp_ THEN robot_positions ELSE {0},
     w \in IF write_submaps_to_directory_ # NoPath
           THEN 0..NumSaveSteps
           ELSE {NumSaveSteps}}

\* the results of the lookups that succeed during one call: at most n
LookupsUpTo(n) == UNION {[1..k -> LookupResults] : k \in 0..n}

Lookups == LookupsUpTo(MaxMsgs)

\* TsdfServer::insertPointcloud called with msg, when the next Len(lookups)
\* calls of lookupTransform succeed with these results and the one after
\* them fails
insertPointcloud(msg, lookups) ==
  LET s0 == enqueue(Server, msg, FALSE)
      admitted == Len(s0.pointcloud_queue_) > Len(pointcloud_queue_)
  IN /\ Len(lookups) <= Len(s0.pointcloud_queue_)
     /\ num_msgs' = IF admitted THEN num_msgs + 1 ELSE num_msgs
     /\ Commit(publishOnUpdate(drainQueue(s0, FALSE, lookups)),
               "insertPointcloud", admitted)

\* TsdfServer::insertFreespacePointcloud, likewise
insertFreespacePointcloud(msg, lookups) ==
  LET s0 == enqueue(Server, msg, TRUE)
      admitted == Len(s0.freespace_pointcloud_queue_)
                    > Len(freespace_pointcloud_queue_)
  IN /\ Len(lookups) <= Len(s0.freespace_pointcloud_queue_)
     /\ num_msgs' = IF admitted THEN num_msgs + 1 ELSE num_msgs
     /\ Commit(drainQueue(s0, TRUE, lookups),
               "insertFreespacePointcloud", admitted)

\* a message arrives on the pointcloud topic
InsertPointcloud ==
  /\ num_msgs < MaxMsgs
  /\ \E msg \in NewMsgs :
       \E lookups \in LookupsUpTo(Len(pointcloud_queue_) + 1) :
         insertPointcloud(msg, lookups)

\* a message arrives on the freespace_pointcloud topic (subscribed only if
\* use_freespace_pointcloud_)
InsertFreespacePointcloud ==
  /\ use_freespace_pointcloud_
  /\ num_msgs < MaxMsgs
  /\ \E msg \in NewMsgs :
       \E lookups \in LookupsUpTo(Len(freespace_pointcloud_queue_) + 1) :
         insertFreespacePointcloud(msg, lookups)

\* TsdfServer::clearMapCallback
ClearMapCallback ==
  /\ Commit([clear(Server) EXCEPT !.result = TRUE], "clearMapCallback",
            FALSE)
  /\ UNCHANGED num_msgs

\* TsdfServer::publishPointcloudsCallback
PublishPointcloudsCallback ==
  /\ Commit(publishPointclouds(Server), "publishPointcloudsCallback", FALSE)
  /\ UNCHANGED num_msgs

\* TsdfServer::publishMapEvent / publishTsdfMapCallback
PublishMapEvent ==
  /\ Commit(publishMap(Server, FALSE), "publishMapEvent", FALSE)
  /\ UNCHANGED num_msgs

\* a node subscribes to tsdf_map_out
SubscribeTsdfMap ==
  /\ tsdf_map_pub_subscribers < MaxSubscribers
  /\ tsdf_map_pub_subscribers' = tsdf_map_pub_subscribers + 1
  /\ CommitServer([Server EXCEPT !.tsdf_map_pub_joined = TRUE],
                  "subscribe", FALSE)
  /\ UNCHANGED num_msgs

\* a subscriber of tsdf_map_out disconnects
UnsubscribeTsdfMap ==
  /\ 0 < tsdf_map_pub_subscribers
  /\ tsdf_map_pub_subscribers' = tsdf_map_pub_subscribers - 1
  /\ CommitServer(Server, "unsubscribe", FALSE)
  /\ UNCHANGED num_msgs

\* TsdfServer::updateMeshEvent
UpdateMeshEvent ==
  /\ Commit(updateMesh(Server), "updateMeshEvent", FALSE)
  /\ UNCHANGED num_msgs

\* ------------------------------------------- a backlog in the ingest queue
\* the number of messages at the head of the queue whose transforms the tf
\* buffer holds, when it holds those of the stamps oldest..newest
RECURSIVE resolvablePrefix(_, _, _)
resolvablePrefix(queue, oldest, newest) ==
  IF queue = <<>> \/ Head(queue).stamp \notin oldest..newest
  THEN 0
  ELSE 1 + resolvablePrefix(Tail(queue), oldest, newest)

\* insertPointcloud called with msg while lookupTransform succeeds for
\* exactly the stamps oldest..newest
insertPointcloudWithTf(msg, oldest, newest) ==
  LET queue == enqueue(Server, msg, FALSE).pointcloud_queue_
  IN \E lookups \in [1..resolvablePrefix(queue, oldest, newest)
                       -> LookupResults] :
       insertPointcloud(msg, lookups)

\* the next message of a sensor that stamps its messages 1, 2, 3, ...
NextStampedMsg ==
  [id |-> num_msgs + 1, stamp |-> last_msg_time_ptcloud_ + 1]

\* what the tf buffer may hold during a call: two consecutive stamps, or
\* every stamp from one on (none, if that one is later than all)
TfIntervals ==
  UNION {{<<oldest, oldest + 1>>, <<oldest, MaxBacklog + 1>>} :
           oldest \in 0..(MaxBacklog + 1)}

\* a message of that sensor arrives
InsertPointcloudWithTf ==
  /\ num_msgs < MaxBacklog
  /\ \E tf \in TfIntervals :
       insertPointcloudWithTf(NextStampedMsg, tf[1], tf[2])

NextBacklog ==
  \/ InsertPointcloudWithTf
  \/ ClearMapCallback

\* the server as a ROS node: the point cloud topics and the services that
\* clear and publish the map
Next ==
  \/ InsertPointcloud
  \/ InsertFreespacePointcloud
  \/ ClearMapCallback
  \/ PublishPointcloudsCallback

\* the same with the map and mesh timers
NextWithTimers ==
  \/ Next
  \/ PublishMapEvent
  \/ UpdateMeshEvent

\* the node when its submaps are of interest
NextSubmaps ==
  \/ InsertPointcloud
  \/ ClearMapCallback

\* the node when its outputs are of interest
NextOutputs ==
  \/ InsertPointcloud
  \/ ClearMapCallback
  \/ PublishPointcloudsCallback
  \/ PublishMapEvent
  \/ UpdateMeshEvent

\* the node when the subscribers of its map come and go
NextRemote ==
  \/ InsertPointcloud
  \/ ClearMapCallback
  \/ PublishMapEvent
  \/ SubscribeTsdfMap
  \/ UnsubscribeTsdfMap

\* -------------------------------------- the window used through the class
\* a direct call of integratePointcloud(timestamp, T_G_C, ptcloud_C, colors,
\* is_freespace_pointcloud) with a new buffer
IntegratePointcloud ==
  /\ num_msgs < MaxMsgs
  /\ \E timestamp \in Times, T_G_C \in robot_positions :
       Commit(integratePointcloud(Server, timestamp, T_G_C, num_msgs + 1,
                                  FALSE),
              "integratePointcloud", FALSE)
  /\ num_msgs' = num_msgs + 1

\* a direct call of servicePointcloudDeintegrationQueue()
ServicePointcloudDeintegrationQueue ==
  /\ Commit(servicePointcloudDeintegrationQueue(Server),
            "servicePointcloudDeintegrationQueue", FALSE)
  /\ UNCHANGED num_msgs

\* a direct call of clear()
Clear ==
  /\ Commit(clear(Server), "clear", FALSE)
  /\ UNCHANGED num_msgs

NextWindow ==
  \/ IntegratePointcloud
  \/ ServicePointcloudDeintegrationQueue
  \/ Clear

\* ------------------------------ the submap reference used through the class
\* a direct call of shouldCreateNewSubmap(current_timestamp, current_T_G_C)
\* for the next observation; num_msgs counts the observations
shouldCreateNewSubmap(current_timestamp, current_T_G_C) ==
  /\ Commit([shouldCreateNewSubmapEffect(Server, current_timestamp,
                                         current_T_G_C)
               EXCEPT !.result =
                 shouldCreateNewSubmapResult(Server, current_timestamp,
                                             current_T_G_C)],
            "shouldCreateNewSubmap", FALSE)
  /\ num_msgs' = num_msgs + 1

ShouldCreateNewSubmap ==
  /\ num_msgs < MaxMsgs
  /\ \E current_timestamp \in Times, current_T_G_C \in robot_positions :
       shouldCreateNewSubmap(current_timestamp, current_T_G_C)

\* a direct call of createNewSubmap(current_timestamp, current_T_G_C)
CreateNewSubmap ==
  /\ submap_counter_ < MaxSubmaps
  /\ \E current_timestamp \in Times, current_T_G_C \in robot_positions :
       Commit(createNewSubmap(Server, current_timestamp, current_T_G_C),
              "createNewSubmap", FALSE)
  /\ UNCHANGED num_msgs

NextReference ==
  \/ ShouldCreateNewSubmap
  \/ CreateNewSubmap

\* -------------------------------- finishing submaps used through the class
NextNewSubmap ==
  \/ IntegratePointcloud
  \/ UpdateMeshEvent
  \/ CreateNewSubmap

\* ------------------------------------------------------------ construction
\* the values the ROS parameters may have
QueueLengthParams == {UnsetThreshold, Threshold(2)}
TimeIntervalParams == {UnsetThreshold, Threshold(1)}
DistanceParams == {UnsetThreshold, Threshold(1)}

RosParams ==
  [min_time_between_msgs_sec : {-1, 0, 1},
   pointcloud_deintegration_max_queue_length : QueueLengthParams,
   pointcloud_deintegration_max_time_interval : TimeIntervalParams,
   pointcloud_deintegration_max_distance_travelled : DistanceParams,
   submap_max_time_interval : TimeIntervalParams,
   submap_max_distance_travelled : DistanceParams,
   use_freespace_pointcloud : BOOLEAN,
   enable_icp : BOOLEAN,
   accumulate_icp_corrections : BOOLEAN,
   publish_pointclouds_on_update : BOOLEAN,
   publish_tsdf_map : BOOLEAN,
   publish_pointclouds : BOOLEAN,
   write_submaps_to_directory : Paths,
   method : {"projective", "merged"},
   \* not a parameter: the subscribers of submap_out at start-up
   submap_subscribers : {0, 1}]

\* mutant: every character passes
hasOnlyAsciiCharacters_Always(string_to_test) == TRUE

\* TsdfServer::hasOnlyAsciiCharacters
hasOnlyAsciiCharacters(string_to_test) ==
  \A i \in 1..Len(string_to_test) :
    ~(\/ string_to_test[i] > kUpperAsciiBound
      \/ string_to_test[i] < kLowerAsciiBound)

\* lines 221-223: remove the trailing slash if present
withoutTrailingSlash(path) ==
  IF Last(path) = Slash THEN SubSeq(path, 1, Len(path) - 1) ELSE path

\* std::string::front(): the first character; of an empty string (a path
\* of "/" after line 222) the behaviour is undefined, any character
front(path) == IF path = <<>> THEN Chars ELSE {path[1]}

\* lines 219-240: the directories the constructor may be left with
sanitizedDirectory(path) ==
  IF path = <<>> THEN {path}
  ELSE LET stripped == withoutTrailingSlash(path)
       IN {LET absolute == IF c # Slash THEN <<>> ELSE stripped
           IN IF ~hasOnlyAsciiCharacters(absolute) THEN <<>> ELSE absolute :
             c \in front(stripped)}

\* lines 124-137: deintegration needs the projective integrator
deintegrationRequested(param) ==
  \/ param.pointcloud_deintegration_max_queue_length.is_set
  \/ param.pointcloud_deintegration_max_time_interval.is_set
  \/ param.pointcloud_deintegration_max_distance_travelled.is_set

\* mutant: every integrator is taken to support deintegration
deintegrationSupported_Always(param) == TRUE

deintegrationSupported(param) ==
  param.method = "projective" \/ ~deintegrationRequested(param)

\* the state the constructor leaves
Construct(param, positions) ==
  /\ ros_param = param
  /\ robot_positions = positions
  /\ min_time_between_msgs_ = param.min_time_between_msgs_sec
  /\ pointcloud_deintegration_max_queue_length_ =
       IF deintegrationSupported(param)
       THEN param.pointcloud_deintegration_max_queue_length
       ELSE UnsetThreshold
  /\ pointcloud_deintegration_max_time_interval_ =
       IF deintegrationSupported(param)
       THEN param.pointcloud_deintegration_max_time_interval
       ELSE UnsetThreshold
  /\ pointcloud_deintegration_max_distance_travelled_ =
       IF deintegrationSupported(param)
       THEN param.pointcloud_deintegration_max_distance_travelled
       ELSE UnsetThreshold
  /\ submap_max_time_interval_ = param.submap_max_time_interval
  /\ submap_max_distance_travelled_ = param.submap_max_distance_travelled
  /\ use_freespace_pointcloud_ = param.use_freespace_pointcloud
  /\ enable_icp_ = param.enable_icp
  /\ accumulate_icp_corrections_ = param.accumulate_icp_corrections
  /\ publish_pointclouds_on_update_ = param.publish_pointclouds_on_update
  /\ publish_tsdf_map_ = param.publish_tsdf_map
  /\ publish_pointclouds_ = param.publish_pointclouds
  /\ write_submaps_to_directory_
       \in sanitizedDirectory(param.write_submaps_to_directory)
  /\ submap_pub_subscribers = param.submap_subscribers
  \* tsdf_map_out has one subscriber when the node starts
  /\ tsdf_map_pub_subscribers = 1
  /\ tsdf_map_pub_joined = TRUE
  /\ num_subscribers_tsdf_map_ = 0
  /\ submap_folders = <<>>
  /\ pointcloud_queue_ = <<>>
  /\ freespace_pointcloud_queue_ = <<>>
  /\ last_msg_time_ptcloud_ = 0
  /\ last_msg_time_freespace_ptcloud_ = 0
  /\ pointcloud_deintegration_queue_ = <<>>
  /\ tsdf_map_ = EmptyLayer
  /\ mesh_layer_ = {}
  /\ map_needs_pruning_ = FALSE
  /\ submap_counter_ = 0
  /\ last_published_submap_timestamp_ = 0
  /\ last_published_submap_position_ = NaNPoint
  /\ icp_corrected_transform_ = 0
  /\ num_msgs = 0
  /\ last_call = [op |-> "TsdfServer", admitted |-> FALSE, fused |-> <<>>,
                  deintegrated |-> <<>>, cleared |-> FALSE, result |-> FALSE,
                  pruned |-> FALSE, outputs |-> <<>>, icp_calls |-> <<>>]

\* the parameters left at their defaults in the runs checked
\* the parameters that decide what is published and written
QuietDefaults(param) ==
  /\ ~param.publish_pointclouds_on_update /\ ~param.publish_tsdf_map
  /\ ~param.publish_pointclouds
  /\ param.write_submaps_to_directory = NoPath
  /\ param.submap_subscribers = 0

IcpDefaults(param) ==
  /\ ~param.enable_icp /\ param.accumulate_icp_corrections
  /\ param.method = "projective"

OtherDefaults(param) == IcpDefaults(param) /\ QuietDefaults(param)

Defaults(param) ==
  /\ param.min_time_between_msgs_sec = 0
  /\ OtherDefaults(param)

\* one stream and a moving sensor, every combination of the thresholds
MovingParams ==
  {param \in RosParams : Defaults(param) /\ ~param.use_freespace_pointcloud}

\* a threshold on the distance travelled is set
distanceMeasured(param) ==
  \/ param.pointcloud_deintegration_max_distance_travelled.is_set
  \/ param.submap_max_distance_travelled.is_set

\* the number of thresholds set
thresholdsSet(param) ==
  Cardinality({i \in 1..5 :
    <<param.pointcloud_deintegration_max_queue_length,
      param.pointcloud_deintegration_max_time_interval,
      param.pointcloud_deintegration_max_distance_travelled,
      param.submap_max_time_interval,
      param.submap_max_distance_travelled>>[i].is_set})

\* a sensor at rest, the thresholds that do not depend on the distance
\* travelled: every combination with one stream, at most one of them with
\* the freespace stream as well
AtRestParams ==
  {param \in RosParams :
     /\ Defaults(param) /\ ~distanceMeasured(param)
     /\ param.use_freespace_pointcloud => thresholdsSet(param) <= 1}

\* the sensor moves where the distance travelled is measured
Init ==
  \/ \E param \in MovingParams :
       distanceMeasured(param) /\ Construct(param, Positions)
  \/ \E param \in AtRestParams : Construct(param, {0})

Spec == Init /\ [][Next]_vars

SpecWithTimers == Init /\ [][NextWithTimers]_vars

\* the window's configurations: every combination of the deintegration
\* thresholds; submapping keeps the window when none of them is set
WindowParams ==
  {param \in MovingParams :
     /\ ~param.submap_max_distance_travelled.is_set
     /\ param.submap_max_time_interval.is_set
          = ~deintegrationRequested(param)}

InitWindow == \E param \in WindowParams : Construct(param, Positions)

SpecWindow == InitWindow /\ [][NextWindow]_vars

\* the ingest queues alone: every rate gate, one or two streams, no window
IngestParams ==
  {param \in RosParams :
     /\ OtherDefaults(param)
     /\ ~deintegrationRequested(param)
     /\ ~param.submap_max_time_interval.is_set
     /\ ~param.submap_max_distance_travelled.is_set}

InitIngest == \E param \in IngestParams : Construct(param, {0})

\* one stream, no rate limit, a sensor at rest
BacklogParams ==
  {param \in IngestParams :
     param.min_time_between_msgs_sec = 0 /\ ~param.use_freespace_pointcloud}

InitBacklog == \E param \in BacklogParams : Construct(param, {0})

SpecBacklog == InitBacklog /\ [][NextBacklog]_vars

\* the same while the sensor keeps sending: as long as a further message can
\* arrive, one does
SpecBacklogLive == SpecBacklog /\ WF_vars(InsertPointcloudWithTf)

SpecIngest == InitIngest /\ [][Next]_vars

\* the submap reference: every combination of the submap thresholds, a
\* moving sensor, no deintegration
ReferenceParams == {param \in MovingParams : ~deintegrationRequested(param)}

InitReference == \E param \in ReferenceParams : Construct(param, Positions)

SpecReference == InitReference /\ [][NextReference]_vars

\* finishing submaps: a submap time threshold, with and without a
\* deintegration threshold, a sensor at rest
NewSubmapParams ==
  {param \in MovingParams :
     /\ param.submap_max_time_interval.is_set
     /\ ~param.submap_max_distance_travelled.is_set
     /\ ~param.pointcloud_deintegration_max_time_interval.is_set
     /\ ~param.pointcloud_deintegration_max_distance_travelled.is_set}

InitNewSubmap == \E param \in NewSubmapParams : Construct(param, {0})

SpecNewSubmap == InitNewSubmap /\ [][NextNewSubmap]_vars

\* submaps by distance travelled, with and without a queue-length bound for
\* deintegration, with and without a subscriber of the submaps and a
\* directory to write them to; one stream, a sensor moving between two
\* positions further apart than the threshold
SubmapsParams ==
  {param \in RosParams :
     /\ param.min_time_between_msgs_sec = 0
     /\ IcpDefaults(param) /\ ~param.use_freespace_pointcloud
     /\ ~param.publish_pointclouds_on_update /\ ~param.publish_tsdf_map
     /\ ~param.publish_pointclouds
     /\ param.write_submaps_to_directory \in {NoPath, SubmapsPath}
     /\ param.submap_max_distance_travelled.is_set
     /\ ~param.submap_max_time_interval.is_set
     /\ ~param.pointcloud_deintegration_max_time_interval.is_set
     /\ ~param.pointcloud_deintegration_max_distance_travelled.is_set}

InitSubmaps == \E param \in SubmapsParams : Construct(param, {0, 2})

SpecSubmaps == InitSubmaps /\ [][NextSubmaps]_vars

\* deintegration by queue length, with and without submaps by time, every
\* combination of the flags that decide what is published; one stream, a
\* sensor at rest
OutputsParams ==
  {param \in RosParams :
     /\ param.min_time_between_msgs_sec = 0
     /\ IcpDefaults(param) /\ ~param.use_freespace_pointcloud
     /\ param.write_submaps_to_directory = NoPath
     /\ param.submap_subscribers = 0
     /\ param.pointcloud_deintegration_max_queue_length.is_set
     /\ ~distanceMeasured(param)
     /\ ~param.pointcloud_deintegration_max_time_interval.is_set}

InitOutputs == \E param \in OutputsParams : Construct(param, {0})

SpecOutputs == InitOutputs /\ [][NextOutputs]_vars

\* pose refinement by ICP, with and without accumulated corrections, with
\* and without submaps by time and the map being published; one stream, a
\* sensor moving between two positions
IcpParams ==
  {param \in RosParams :
     /\ param.min_time_between_msgs_sec = 0
     /\ param.enable_icp /\ param.method = "projective"
     /\ ~param.publish_pointclouds_on_update /\ ~param.publish_pointclouds
     /\ param.write_submaps_to_directory = NoPath
     /\ param.submap_subscribers = 0
     /\ ~param.use_freespace_pointcloud
     /\ ~deintegrationRequested(param)
     /\ ~param.submap_max_distance_travelled.is_set}

InitIcp == \E param \in IcpParams : Construct(param, {0, 1})

SpecIcp == InitIcp /\ [][NextSubmaps]_vars

\* deintegration asked for with the merged integrator, with and without
\* submaps by time; one stream, a sensor at rest
UnsupportedParams ==
  {param \in RosParams :
     /\ param.min_time_between_msgs_sec = 0
     /\ ~param.enable_icp /\ param.accumulate_icp_corrections
     /\ param.method = "merged"
     /\ QuietDefaults(param) /\ ~param.use_freespace_pointcloud
     /\ deintegrationRequested(param)
     /\ ~param.submap_max_distance_travelled.is_set}

InitUnsupported == \E param \in UnsupportedParams : Construct(param, {0})

SpecUnsupported == InitUnsupported /\ [][NextSubmaps]_vars

\* every directory parameter, submaps by time with and without a
\* subscriber; one stream, a sensor at rest
PathsParams ==
  {param \in RosParams :
     /\ param.min_time_between_msgs_sec = 0
     /\ IcpDefaults(param) /\ ~param.use_freespace_pointcloud
     /\ ~param.publish_pointclouds_on_update /\ ~param.publish_tsdf_map
     /\ ~param.publish_pointclouds
     /\ param.submap_max_time_interval.is_set
     /\ thresholdsSet(param) = 1}

InitPaths == \E param \in PathsParams : Construct(param, {0})

SpecPaths == InitPaths /\ [][NextSubmaps]_vars

\* the map is published; one stream, a sensor at rest, no thresholds
RemoteParams ==
  {param \in RosParams :
     /\ param.min_time_between_msgs_sec = 0
     /\ IcpDefaults(param) /\ ~param.use_freespace_pointcloud
     /\ ~param.publish_pointclouds_on_update /\ ~param.publish_pointclouds
     /\ param.publish_tsdf_map
     /\ param.write_submaps_to_directory = NoPath
     /\ param.submap_subscribers = 0
     /\ thresholdsSet(param) = 0}

InitRemote == \E param \in RemoteParams : Construct(param, {0})

SpecRemote == InitRemote /\ [][NextRemote]_vars

\* every rate gate in front of a window that keeps two packets; one or two
\* streams, a sensor at rest
GateParams ==
  {param \in RosParams :
     /\ OtherDefaults(param)
     /\ param.pointcloud_deintegration_max_queue_length.is_set
     /\ thresholdsSet(param) = 1}

InitGate == \E param \in GateParams : Construct(param, {0})

SpecGate == InitGate /\ [][Next]_vars

\* ======================================================================
\* Properties
\* ======================================================================
Window == pointcloud_deintegration_queue_
MaxQueueLength == pointcloud_deintegration_max_queue_length_
MaxTimeInterval == pointcloud_deintegration_max_time_interval_
MaxDistance == pointcloud_deintegration_max_distance_travelled_

\* w is w0 without its first n packets
IsSuffix(w, w0) ==
  /\ Len(w) <= Len(w0)
  /\ w = SubSeq(w0, Len(w0) - Len(w) + 1, Len(w0))

\* a set bound is strictly less than what it measures on the window w
SomeBoundExceeded(w) ==
  \/ MaxQueueLength.is_set /\ MaxQueueLength.threshold < Len(w)
  \/ MaxTimeInterval.is_set
       /\ MaxTimeInterval.threshold < w[Len(w)].timestamp - w[1].timestamp
  \/ MaxDistance.is_set
       /\ MaxDistance.threshold < Abs(w[Len(w)].T_G_C - w[1].T_G_C)

\* the step is a call of op
Called(op) == last_call'.op = op

ServiceCalled == Called("servicePointcloudDeintegrationQueue")

StrictlyIncreasing(w) ==
  \A i \in 1..(Len(w) - 1) : w[i].timestamp < w[i + 1].timestamp

\* C1: a call of servicePointcloudDeintegrationQueue removes a prefix of the
\* window and deintegrates exactly those packets; every packet it removes
\* was the front of a window of more than one packet on which some set
\* bound was strictly less than its measured value; the window it leaves
\* has at most one packet or exceeds no set bound.
C1_ServiceEvictsExactlyWhileExceeded ==
  [][ServiceCalled =>
       LET n == Len(Window) - Len(Window')
       IN /\ IsSuffix(Window', Window)
          /\ last_call'.deintegrated = SubSeq(Window, 1, n)
          /\ \A i \in 1..n :
               LET w == SubSeq(Window, i, Len(Window))
               IN Len(w) > 1 /\ SomeBoundExceeded(w)
          /\ Len(Window') <= 1 \/ ~SomeBoundExceeded(Window')
          /\ map_needs_pruning_' = (map_needs_pruning_ \/ n > 0)]_vars

\* C1 witness: a service call evicted packets and stopped with more than
\* one packet left
C1_Witness ==
  /\ last_call.op = "servicePointcloudDeintegrationQueue"
  /\ last_call.deintegrated # <<>>
  /\ Len(Window) > 1

\* C2: a service call on a non-empty window leaves it non-empty with the
\* same back packet, and the window only ever becomes empty in a step that
\* ran clear().
C2_ServiceKeepsTheLastPacket ==
  [][/\ (ServiceCalled /\ Window # <<>>) =>
          (Window' # <<>> /\ Last(Window') = Last(Window))
     /\ (Window # <<>> /\ Window' = <<>>) => last_call'.cleared]_vars

\* C2 witness: a service call evicted down to a single packet
C2_Witness ==
  /\ last_call.op = "servicePointcloudDeintegrationQueue"
  /\ last_call.deintegrated # <<>>
  /\ Len(Window) = 1

\* C3: with all three deintegration bounds unset a service call changes
\* neither the window nor the map nor the pruning flag and deintegrates
\* nothing.
C3_UnsetBoundsNeverEvict ==
  [][(ServiceCalled /\ ~pointcloudDeintegrationEnabled) =>
       /\ UNCHANGED <<pointcloud_deintegration_queue_, tsdf_map_,
                      map_needs_pruning_>>
       /\ last_call'.deintegrated = <<>>]_vars

\* C3 witness: a service call on a window of several packets, no bound set
C3_Witness ==
  /\ last_call.op = "servicePointcloudDeintegrationQueue"
  /\ ~pointcloudDeintegrationEnabled
  /\ Len(Window) >= 2

OnlyQueueLengthSet ==
  MaxQueueLength.is_set /\ ~MaxTimeInterval.is_set /\ ~MaxDistance.is_set

\* C4 as claimed: with only max_queue_length = N set, after a service call
\* the window size is below N or equals 1.
C4_Claimed_SizeBelowBound ==
  [][(ServiceCalled /\ OnlyQueueLengthSet) =>
       (Len(Window') < MaxQueueLength.threshold \/ Len(Window') = 1)]_vars

\* C4 amended: with only max_queue_length = N set, the predicate is
\* N < size(): a service call evicts the front while the window holds more
\* than N packets (and more than one), so it leaves min(size, max(N, 1))
\* packets: at most N, or one.
C4_SizeAtMostBound ==
  [][(ServiceCalled /\ OnlyQueueLengthSet) =>
       LET N == MaxQueueLength.threshold
           keep == IF N < 1 THEN 1 ELSE N
       IN /\ Len(Window') = IF Len(Window) < keep THEN Len(Window) ELSE keep
          /\ IsSuffix(Window', Window)
          /\ (Len(Window') <= N \/ Len(Window') = 1)]_vars

\* C4 witness: only the queue length is bounded and a service call evicted
C4_Witness ==
  /\ last_call.op = "servicePointcloudDeintegrationQueue"
  /\ OnlyQueueLengthSet
  /\ last_call.deintegrated # <<>>
  /\ Len(Window) = MaxQueueLength.threshold

OnlyTimeIntervalSet ==
  ~MaxQueueLength.is_set /\ MaxTimeInterval.is_set /\ ~MaxDistance.is_set

Interval(w) == w[Len(w)].timestamp - w[1].timestamp

\* C5 as claimed: with only max_time_interval set and strictly increasing
\* timestamps, a service call leaves a window whose front-to-back interval
\* is below the bound, or a single packet.
C5_Claimed_IntervalBelowBound ==
  [][(ServiceCalled /\ OnlyTimeIntervalSet /\ StrictlyIncreasing(Window)
        /\ Window # <<>>) =>
       (Len(Window') = 1
          \/ Interval(Window') < MaxTimeInterval.threshold)]_vars

\* C5 amended: with only max_time_interval set and strictly increasing
\* timestamps, a service call evicts exactly the packets that are more than
\* max_time_interval older than the back packet (never the back packet), so
\* the interval it leaves is at most the bound, or the size is 1; a window
\* whose interval equals the bound is left as it is.
C5_IntervalAtMostBound ==
  [][(ServiceCalled /\ OnlyTimeIntervalSet /\ StrictlyIncreasing(Window)
        /\ Window # <<>>) =>
       LET T == MaxTimeInterval.threshold
           back == Last(Window)
           n == Len(Window) - Len(Window')
       IN /\ IsSuffix(Window', Window)
          /\ Window' # <<>>
          /\ \A i \in 1..Len(Window) :
               (i <= n) <=>
                 (i < Len(Window) /\ back.timestamp - Window[i].timestamp > T)
          /\ (Len(Window') = 1 \/ Interval(Window') <= T)
          /\ (Interval(Window) = T => Window' = Window)]_vars

\* C5 witness: only the time interval is bounded, the timestamps increase,
\* a service call evicted and left an interval equal to the bound
C5_Witness ==
  /\ last_call.op = "servicePointcloudDeintegrationQueue"
  /\ OnlyTimeIntervalSet
  /\ last_call.deintegrated # <<>>
  /\ Len(Window) > 1
  /\ StrictlyIncreasing(Window)
  /\ Interval(Window) = MaxTimeInterval.threshold

\* the contribution a packet of the window stands for
ContributionOf(packet) ==
  Contribution(packet.T_G_C, packet.ptcloud_C, packet.is_freespace_pointcloud)

C7_Claimed_WindowTimestampsIncrease == StrictlyIncreasing(Window)

\* the effect of the rate gate when msg arrives on a stream whose queue and
\* last admitted stamp are queue and last_msg_time before the call
GateEffect(msg, last_msg_time, new_last_msg_time, queue, new_queue) ==
  LET passes == msg.stamp - last_msg_time > min_time_between_msgs_
      retained ==
        \/ msg \in Range(new_queue)
        \/ msg.id \in Range(last_call'.fused)
  IN /\ last_call'.admitted <=> passes
     /\ (num_msgs' = num_msgs + 1) <=> passes
     /\ passes => (new_last_msg_time = msg.stamp /\ retained)
     /\ ~passes =>
          /\ new_last_msg_time = last_msg_time
          /\ IsSuffix(new_queue, queue)
          /\ ~retained
          /\ \A c \in LiveContributions(tsdf_map_') : c.ptcloud_C # msg.id
          /\ \A i \in 1..Len(Window') : Window'[i].ptcloud_C # msg.id

\* C8: a message is admitted to its stream's queue if and only if
\* stamp - last admitted stamp > min_time_between_msgs; an admitted message
\* becomes the last admitted stamp and is queued or processed; a rejected
\* one leaves the last admitted stamp unchanged, adds nothing to the queue
\* and is held nowhere in the server afterwards.
C8_RateGateAdmitsIffStrictlyLater ==
  [][\A msg \in NewMsgs : \A lookups \in Lookups :
       /\ (Called("insertPointcloud") /\ insertPointcloud(msg, lookups)) =>
            GateEffect(msg, last_msg_time_ptcloud_, last_msg_time_ptcloud_',
                       pointcloud_queue_, pointcloud_queue_')
       /\ (Called("insertFreespacePointcloud")
             /\ insertFreespacePointcloud(msg, lookups)) =>
            GateEffect(msg, last_msg_time_freespace_ptcloud_,
                       last_msg_time_freespace_ptcloud_',
                       freespace_pointcloud_queue_,
                       freespace_pointcloud_queue_')]_vars

\* C8 witness: a message was rejected while earlier ones wait in the queue
C8_Witness ==
  /\ last_call.op = "insertPointcloud"
  /\ ~last_call.admitted
  /\ pointcloud_queue_ # <<>>
  /\ min_time_between_msgs_ > 0

\* C9 as claimed: with min_time_between_msgs = 0 every incoming message is
\* enqueued.
C9_Claimed_ZeroGateAdmitsEverything ==
  [][(min_time_between_msgs_ = 0
        /\ last_call'.op \in {"insertPointcloud", "insertFreespacePointcloud"})
       => last_call'.admitted]_vars

\* C9 amended: with min_time_between_msgs = 0 a message is enqueued if and
\* only if its stamp is strictly later than the last enqueued stamp of its
\* stream (initially 0); with a positive value a message whose stamp is not
\* more than min_time_between_msgs later than the last enqueued one is
\* discarded and not queued.
C9_ZeroGateAdmitsLaterStamps ==
  [][\A msg \in NewMsgs : \A lookups \in Lookups :
       /\ (Called("insertPointcloud") /\ insertPointcloud(msg, lookups)) =>
            /\ min_time_between_msgs_ = 0 =>
                 (last_call'.admitted <=> msg.stamp > last_msg_time_ptcloud_)
            /\ (min_time_between_msgs_ > 0 /\
                  msg.stamp - last_msg_time_ptcloud_ <= min_time_between_msgs_)
                 => (~last_call'.admitted /\ msg \notin Range(pointcloud_queue_'))
       /\ (Called("insertFreespacePointcloud")
             /\ insertFreespacePointcloud(msg, lookups)) =>
            /\ min_time_between_msgs_ = 0 =>
                 (last_call'.admitted
                    <=> msg.stamp > last_msg_time_freespace_ptcloud_)
            /\ (min_time_between_msgs_ > 0 /\
                  msg.stamp - last_msg_time_freespace_ptcloud_
                    <= min_time_between_msgs_)
                 => (~last_call'.admitted
                       /\ msg \notin Range(freespace_pointcloud_queue_'))]_vars

\* C9 witness: with min_time_between_msgs = 0 a message with the stamp of
\* the last enqueued one was discarded
C9_Witness ==
  /\ min_time_between_msgs_ = 0
  /\ last_call.op = "insertPointcloud"
  /\ ~last_call.admitted
  /\ last_msg_time_ptcloud_ > 0

\* what a drain does to a queue that holds queue0 after the gate
DrainEffect(queue0, lookups, new_queue) ==
  LET n == Len(queue0)
      f == IF Len(lookups) < n THEN Len(lookups) ELSE n
  IN /\ last_call'.fused = [i \in 1..f |-> queue0[i].id]
     /\ (n - f < kMaxQueueSize) => new_queue = SubSeq(queue0, f + 1, n)
     /\ f < n => (new_queue # <<>> /\ IsSuffix(new_queue, queue0))

AfterGate(queue, msg) ==
  IF last_call'.admitted THEN Append(queue, msg) ELSE queue

\* C10: a call processes the messages of its stream's queue from the head,
\* in the order they were admitted, as long as the lookups succeed; when a
\* lookup fails nothing behind that message is processed, it stays at the
\* head (queues shorter than the overflow bound) and the other stream's
\* queue is untouched.
C10_DrainedInAdmissionOrder ==
  [][\A msg \in NewMsgs : \A lookups \in Lookups :
       /\ (Called("insertPointcloud") /\ insertPointcloud(msg, lookups)) =>
            /\ DrainEffect(AfterGate(pointcloud_queue_, msg), lookups,
                           pointcloud_queue_')
            /\ UNCHANGED freespace_pointcloud_queue_
       /\ (Called("insertFreespacePointcloud")
             /\ insertFreespacePointcloud(msg, lookups)) =>
            /\ DrainEffect(AfterGate(freespace_pointcloud_queue_, msg), lookups,
                           freespace_pointcloud_queue_')
            /\ UNCHANGED pointcloud_queue_]_vars

\* C10 witness: a call processed two queued messages in order and stopped at
\* a third whose lookup failed
C10_Witness ==
  /\ last_call.op = "insertPointcloud"
  /\ Len(last_call.fused) = 2
  /\ last_call.fused[1] < last_call.fused[2]
  /\ pointcloud_queue_ # <<>>
  /\ Head(pointcloud_queue_).id > last_call.fused[2]

\* C11 as claimed: when the drain of a call returns, the ingest queue is
\* empty or the transform of the message at its head cannot be looked up.
C11_Claimed_DrainStopsOnlyAtUnresolvableHead ==
  [][\A tf \in TfIntervals :
       (Called("insertPointcloud")
          /\ insertPointcloudWithTf(NextStampedMsg, tf[1], tf[2])) =>
         \/ pointcloud_queue_' = <<>>
         \/ Head(pointcloud_queue_').stamp \notin tf[1]..tf[2]]_vars

\* C12: a call never holds more than kMaxQueueSize messages in the queue;
\* what it leaves is what follows the processed messages, without its
\* oldest entries if and only if that is kMaxQueueSize long, and then
\* kMaxQueueSize - 1 long; so every call leaves at most kMaxQueueSize - 1
\* messages.
C12_OverflowDropsOnlyTheOldest ==
  [][\A tf \in TfIntervals :
       (Called("insertPointcloud")
          /\ insertPointcloudWithTf(NextStampedMsg, tf[1], tf[2])) =>
         LET queue0 == Append(pointcloud_queue_, NextStampedMsg)
             f == Len(last_call'.fused)
             rest == SubSeq(queue0, f + 1, Len(queue0))
         IN /\ Len(queue0) <= kMaxQueueSize
            /\ IsSuffix(pointcloud_queue_', rest)
            /\ Len(rest) < kMaxQueueSize => pointcloud_queue_' = rest
            /\ Len(rest) >= kMaxQueueSize =>
                 Len(pointcloud_queue_') = kMaxQueueSize - 1
            /\ Len(pointcloud_queue_') <= kMaxQueueSize - 1]_vars

\* C12 witness: a call dropped the oldest message of a full queue
C12_Witness ==
  /\ last_call.op = "insertPointcloud"
  /\ last_call.fused = <<>>
  /\ Len(pointcloud_queue_) = kMaxQueueSize - 1
  /\ Last(pointcloud_queue_).id - Head(pointcloud_queue_).id
       = kMaxQueueSize - 2
  /\ Head(pointcloud_queue_).id > 1

\* the reference of the current submap
Reference ==
  <<last_published_submap_timestamp_, last_published_submap_position_>>

\* the reference an observation makes
Observation(current_timestamp, current_T_G_C) ==
  <<current_timestamp, [nan |-> FALSE, x |-> current_T_G_C]>>

\* a set bound is strictly less than what the observation measures from the
\* reference
SubmapBoundExceeded(current_timestamp, current_T_G_C) ==
  \/ /\ submap_max_time_interval_.is_set
     /\ submap_max_time_interval_.threshold
          < current_timestamp - last_published_submap_timestamp_
  \/ /\ submap_max_distance_travelled_.is_set
     /\ submap_max_distance_travelled_.threshold
          < Abs(current_T_G_C - last_published_submap_position_.x)

\* C13 as claimed: with a submap threshold configured, the first call of
\* shouldCreateNewSubmap returns false and makes its observation the
\* reference, whatever the timestamp and the pose; the second call (no
\* submap finished in between) is evaluated against that reference and
\* leaves it as it is.
C13_Claimed_FirstCallInitializesOnce ==
  [][\A current_timestamp \in Times, current_T_G_C \in Positions :
       (/\ Called("shouldCreateNewSubmap")
        /\ shouldCreateNewSubmap(current_timestamp, current_T_G_C)
        /\ submappingEnabled /\ submap_counter_ = 0) =>
         /\ num_msgs = 0 =>
              /\ ~last_call'.result
              /\ Reference' = Observation(current_timestamp, current_T_G_C)
         /\ num_msgs = 1 =>
              /\ UNCHANGED Reference
              /\ last_call'.result
                   = SubmapBoundExceeded(current_timestamp, current_T_G_C)
    ]_vars

\* the reference is what the code takes for initialized
ReferenceInitialized ==
  /\ last_published_submap_timestamp_ # 0
  /\ ~last_published_submap_position_.nan

\* C14: once the reference is initialized, shouldCreateNewSubmap returns
\* true if and only if the time bound is set and strictly less than the time
\* since the reference, or the distance bound is set and strictly less than
\* the distance from the reference; it leaves the reference as it is.
C14_TrueIffASetBoundIsStrictlyExceeded ==
  [][\A current_timestamp \in Times, current_T_G_C \in Positions :
       (/\ Called("shouldCreateNewSubmap")
        /\ shouldCreateNewSubmap(current_timestamp, current_T_G_C)
        /\ ReferenceInitialized) =>
         /\ last_call'.result
              = SubmapBoundExceeded(current_timestamp, current_T_G_C)
         /\ UNCHANGED Reference]_vars

\* C14 witness: with the reference initialized and only the distance bound
\* set, a call returned true
C14_Witness ==
  /\ last_call.op = "shouldCreateNewSubmap"
  /\ last_call.result
  /\ ReferenceInitialized
  /\ ~submap_max_time_interval_.is_set
  /\ submap_max_distance_travelled_.is_set

\* C15 as claimed: a call of shouldCreateNewSubmap other than the first
\* leaves the reference timestamp and position unchanged, and a call of
\* createNewSubmap sets both to its observation.
C15_Claimed_ReferenceWrittenOnlyByFirstCallAndFinalize ==
  [][/\ (Called("shouldCreateNewSubmap") /\ num_msgs >= 1) =>
          UNCHANGED Reference
     /\ \A current_timestamp \in Times, current_T_G_C \in Positions :
          (/\ Called("createNewSubmap")
           /\ Commit(createNewSubmap(Server, current_timestamp,
                                     current_T_G_C),
                     "createNewSubmap", FALSE)) =>
            Reference' = Observation(current_timestamp, current_T_G_C)
    ]_vars

\* some deintegration bound is set
SomeDeintegrationBoundSet ==
  MaxQueueLength.is_set \/ MaxTimeInterval.is_set \/ MaxDistance.is_set

\* C16: a call of createNewSubmap adds one to the submap counter; without a
\* deintegration bound it leaves the map, the mesh and the window empty,
\* with one it leaves the map and the window as they were.
C16_NewSubmapResetsIffNoDeintegration ==
  [][Called("createNewSubmap") =>
       /\ submap_counter_' = submap_counter_ + 1
       /\ ~SomeDeintegrationBoundSet =>
            /\ tsdf_map_' = EmptyLayer
            /\ mesh_layer_' = {}
            /\ Window' = <<>>
            /\ last_call'.cleared
       /\ SomeDeintegrationBoundSet =>
            /\ UNCHANGED <<tsdf_map_, mesh_layer_, Window>>
            /\ ~last_call'.cleared]_vars

\* C16 witness: with a deintegration bound set, a submap was finished and
\* the map, the mesh and the window still hold what was fused
C16_Witness ==
  /\ last_call.op = "createNewSubmap"
  /\ SomeDeintegrationBoundSet
  /\ submap_counter_ = 1
  /\ Len(Window) = 2
  /\ LiveContributions(tsdf_map_) # {}
  /\ mesh_layer_ # {}

\* the outputs of the last call that are of a kind
OutputsOf(kind) ==
  SelectSeq(last_call'.outputs, LAMBDA output : output.kind = kind)

\* one pose per packet of the window w, front to back
Poses(w) == [i \in 1..Len(w) |-> [stamp |-> w[i].timestamp, pose |-> w[i].T_G_C]]

\* a call that was given an empty ingest queue, processed its message and
\* finished a submap with it
FinishedSubmapWithItsMessage ==
  /\ Called("insertPointcloud")
  /\ pointcloud_queue_ = <<>>
  /\ Len(last_call'.fused) = 1
  /\ submap_counter_' = submap_counter_ + 1

\* C17: when a message finishes a submap and the submap topic has a
\* subscriber, one submap is published; its trajectory is, front to back,
\* one pose per packet the window held when the message arrived (less what
\* deintegration removed), followed by the pose of that message; the window
\* is reset only afterwards.
C17_TrajectoryIsTheWindowBeforeReset ==
  [][(FinishedSubmapWithItsMessage /\ 0 < submap_pub_subscribers) =>
       /\ Len(OutputsOf("submap")) = 1
       /\ LET poses == OutputsOf("submap")[1].trajectory
              n == Len(poses)
          IN /\ n >= 1
             /\ poses[n].stamp = last_msg_time_ptcloud_'
             /\ poses[n].pose \in robot_positions
             /\ IsSuffix(SubSeq(poses, 1, n - 1), Poses(Window))
             /\ IF SomeDeintegrationBoundSet
                THEN poses = Poses(Window')
                ELSE /\ SubSeq(poses, 1, n - 1) = Poses(Window)
                     /\ Window' = <<>>]_vars

\* C17 witness: without deintegration, a call published a submap with the
\* poses of two packets and reset the window
C17_Witness ==
  /\ last_call.op = "insertPointcloud"
  /\ ~SomeDeintegrationBoundSet
  /\ Window = <<>>
  /\ \E i \in 1..Len(last_call.outputs) :
       /\ last_call.outputs[i].kind = "submap"
       /\ Len(last_call.outputs[i].trajectory) = 2

\* C18: with a directory to write submaps to, the k-th submap finished
\* (k = 0, 1, 2, ...) is written to the folder of index k and nowhere else,
\* whether or not earlier writes succeeded: the folders written so far are
\* those of the indices 0, 1, ... in this order, one for each submap
\* finished, and a call adds folders only at the end.
C18_FoldersWrittenInIndexOrder ==
  [][write_submaps_to_directory_ # NoPath =>
       /\ Len(submap_folders') = submap_counter_'
       /\ \A k \in 1..Len(submap_folders') :
            submap_folders'[k].index = k - 1
       /\ submap_folders = SubSeq(submap_folders', 1, Len(submap_folders))
    ]_vars

\* C18 witness: the write of submap 0 failed and submap 1 was written to the
\* folder of index 1
C18_Witness ==
  /\ Len(submap_folders) = 2
  /\ ~submap_folders[1].saved
  /\ submap_folders[2].saved
  /\ submap_folders[2].index = 1

\* C19: map_needs_pruning_ is true after a call that deintegrated a packet
\* and did not prune afterwards, false after a call that pruned, and
\* unchanged by every other call: only deintegration sets it and only
\* pruneMap clears it.
C19_FlagSetByDeintegrationClearedByPruneMap ==
  [][/\ last_call'.pruned => ~map_needs_pruning_'
     /\ (~last_call'.pruned /\ last_call'.deintegrated # <<>>) =>
          map_needs_pruning_'
     /\ (~last_call'.pruned /\ last_call'.deintegrated = <<>>) =>
          UNCHANGED map_needs_pruning_]_vars

\* C19 witness: the flag is still set after a clear() that did not publish
\* the map
C19_Witness ==
  /\ map_needs_pruning_
  /\ last_call.op = "clearMapCallback"
  /\ last_call.cleared
  /\ ~last_call.pruned

\* C20 as claimed: nothing is published or written from the map while
\* map_needs_pruning_ is true: every output of a call was produced with the
\* flag false.
C20_Claimed_NoOutputWhileNeedsPruning ==
  \A i \in 1..Len(last_call.outputs) : ~last_call.outputs[i].needs_pruning

\* C21: when ICP corrections are not accumulated, every call of runICP is
\* handed the pose looked up for its message as the initial guess, whatever
\* the earlier calls returned; when they are accumulated, the first runICP
\* of a call is handed that pose moved by the correction kept.
C21_InitialGuessIsTheRawPoseWithoutAccumulation ==
  [][(Called("insertPointcloud") /\ enable_icp_) =>
       LET calls == last_call'.icp_calls
       IN /\ Len(calls) = Len(last_call'.fused)
          /\ ~accumulate_icp_corrections_ =>
               \A k \in 1..Len(calls) :
                 calls[k].initial_guess = calls[k].T_G_C
          /\ (accumulate_icp_corrections_ /\ calls # <<>>) =>
               calls[1].initial_guess
                 = icp_corrected_transform_ + calls[1].T_G_C]_vars

\* C21 witness: without accumulation, the first runICP of a call moved the
\* pose and the second was handed the pose looked up for its message
C21_Witness ==
  /\ enable_icp_ /\ ~accumulate_icp_corrections_
  /\ Len(last_call.icp_calls) = 2
  /\ last_call.icp_calls[1].T_G_C_refined # last_call.icp_calls[1].T_G_C
  /\ last_call.icp_calls[2].initial_guess = last_call.icp_calls[2].T_G_C
  /\ last_call.icp_calls[2].T_G_C # 0

\* deintegration was asked for but the integrator is not the projective one
DeintegrationUnsupported ==
  /\ \/ ros_param.pointcloud_deintegration_max_queue_length.is_set
     \/ ros_param.pointcloud_deintegration_max_time_interval.is_set
     \/ ros_param.pointcloud_deintegration_max_distance_travelled.is_set
  /\ ros_param.method # "projective"

\* the point clouds whose contributions are in the map
FusedInMap(layer) == {c.ptcloud_C : c \in LiveContributions(layer)}

\* C22: when deintegration was asked for with an integrator that does not
\* support it, the three deintegration thresholds are unset; calls still
\* fuse their messages into the map, no call deintegrates anything, and a
\* call that finishes a submap runs clear(): after a call that finished a
\* submap with its only message, map, mesh and window are empty.
C22_UnsupportedDeintegrationIsSwitchedOff ==
  [][DeintegrationUnsupported =>
       /\ ~SomeDeintegrationBoundSet
       /\ last_call'.deintegrated = <<>>
       /\ ~map_needs_pruning_'
       /\ (Called("insertPointcloud") /\ ~last_call'.cleared) =>
            \A id \in Range(last_call'.fused) : id \in FusedInMap(tsdf_map_')
       /\ submap_counter_' # submap_counter_ =>
            /\ last_call'.cleared
            /\ Len(last_call'.fused) = 1 =>
                 /\ tsdf_map_' = EmptyLayer
                 /\ mesh_layer_' = {}
                 /\ Window' = <<>>]_vars

\* C22 witness: deintegration by queue length was asked for with the merged
\* integrator; two messages were fused, then a third finished a submap and
\* left the map empty
C22_Witness ==
  /\ DeintegrationUnsupported
  /\ ros_param.pointcloud_deintegration_max_queue_length.is_set
  /\ last_call.op = "insertPointcloud"
  /\ last_call.fused = <<3>>
  /\ last_call.cleared
  /\ submap_counter_ = 1
  /\ tsdf_map_ = EmptyLayer

\* a path without its trailing slash, if it has one
Stripped(path) ==
  IF path # <<>> /\ path[Len(path)] = Slash
  THEN SubSeq(path, 1, Len(path) - 1)
  ELSE path

\* a path that starts with a slash and holds printable ASCII only
AbsoluteAscii(path) ==
  /\ path # <<>> /\ path[1] = Slash
  /\ \A i \in 1..Len(path) :
       kLowerAsciiBound <= path[i] /\ path[i] <= kUpperAsciiBound

\* the directory parameter is one that is kept
DirectoryAccepted ==
  AbsoluteAscii(Stripped(ros_param.write_submaps_to_directory))

\* C23: the directory the constructor keeps is the parameter without one
\* trailing slash if that is an absolute path of printable ASCII, and none
\* otherwise; the other settings are as given; with no directory kept no
\* call writes a submap, and a call that finishes a submap still publishes
\* it to a subscriber and counts it.
C23_RejectedDirectoryOnlyDisablesWriting ==
  [][/\ write_submaps_to_directory_
          = IF DirectoryAccepted
            THEN Stripped(ros_param.write_submaps_to_directory)
            ELSE NoPath
     /\ submap_max_time_interval_ = ros_param.submap_max_time_interval
     /\ submap_max_distance_travelled_
          = ros_param.submap_max_distance_travelled
     /\ min_time_between_msgs_ = ros_param.min_time_between_msgs_sec
     /\ submap_pub_subscribers = ros_param.submap_subscribers
     /\ ~DirectoryAccepted =>
          /\ submap_folders' = <<>>
          /\ OutputsOf("volumetric_map.tsdf") = <<>>
          /\ OutputsOf("robot_trajectory.traj") = <<>>
          /\ OutputsOf("new_submap_notification") = <<>>
     /\ DirectoryAccepted =>
          Len(submap_folders') = submap_counter_'
     /\ FinishedSubmapWithItsMessage =>
          /\ Window' = <<>>
          /\ Len(OutputsOf("submap"))
               = IF 0 < submap_pub_subscribers THEN 1 ELSE 0]_vars

\* C23 witness: the directory parameter held a byte outside the printable
\* ASCII range; a submap was finished and published, nothing was written
C23_Witness ==
  /\ ros_param.write_submaps_to_directory = <<47, 115, 233, 47>>
  /\ write_submaps_to_directory_ = NoPath
  /\ submap_counter_ = 1
  /\ submap_folders = <<>>
  /\ \E i \in 1..Len(last_call.outputs) : last_call.outputs[i].kind = "submap"

\* a call that was given an empty ingest queue, processed its message and
\* tried to write a submap
TriedToWriteSubmapWithItsMessage ==
  /\ Called("insertPointcloud")
  /\ pointcloud_queue_ = <<>>
  /\ Len(last_call'.fused) = 1
  /\ Len(submap_folders') = Len(submap_folders) + 1

\* C24: whatever saveSubmap returns for a submap and returned for the
\* submaps before, the submap is published if the topic has a subscriber,
\* the counter is incremented and the reference moved to the finalizing
\* message, and the write went to the folder of that submap; the path of the
\* new submap is announced if and only if saveSubmap returned true, and then
\* the map file and the trajectory file were written.
C24_WriteFailureStopsOnlyTheNotification ==
  [][TriedToWriteSubmapWithItsMessage =>
       LET folder == submap_folders'[Len(submap_folders')]
       IN /\ folder.index = submap_counter_
          /\ submap_counter_' = submap_counter_ + 1
          /\ last_published_submap_timestamp_' = last_msg_time_ptcloud_'
          /\ ~last_published_submap_position_'.nan
          /\ Len(OutputsOf("submap"))
               = IF 0 < submap_pub_subscribers THEN 1 ELSE 0
          /\ Len(OutputsOf("new_submap_notification"))
               = IF folder.saved THEN 1 ELSE 0
          /\ folder.saved =>
               /\ Len(OutputsOf("volumetric_map.tsdf")) = 1
               /\ Len(OutputsOf("robot_trajectory.traj")) = 1]_vars

\* C24 witness: the write of submap 0 had failed; submap 1 was published to
\* the subscriber, written, and its path announced
C24_Witness ==
  /\ 0 < submap_pub_subscribers
  /\ Len(submap_folders) = 2
  /\ ~submap_folders[1].saved
  /\ submap_folders[2].saved
  /\ submap_counter_ = 2
  /\ \E i, j \in 1..Len(last_call.outputs) :
       /\ last_call.outputs[i].kind = "submap"
       /\ last_call.outputs[i].index = 1
       /\ last_call.outputs[j].kind = "new_submap_notification"

\* the point clouds of the packets of a window, front to back
CloudsOf(w) == [i \in 1..Len(w) |-> w[i].ptcloud_C]

\* some deintegration or submap threshold is set
WindowNeeded ==
  \/ SomeDeintegrationBoundSet
  \/ submap_max_time_interval_.is_set
  \/ submap_max_distance_travelled_.is_set

\* C25: with a deintegration or submap threshold set, a call that fuses n
\* messages appends one packet for each of them, in that order, to the back
\* of the window: unless clear() ran, the window it leaves is what the n
\* packets were appended to, less the packets deintegrated from its front.
\* With no threshold set the window is empty after every call.
C25_OnePacketPerFusedMessageIfNeeded ==
  [][/\ (WindowNeeded /\ ~last_call'.cleared) =>
          /\ IsSuffix(CloudsOf(Window'),
                      CloudsOf(Window) \o last_call'.fused)
          /\ Len(Window')
               = Len(Window) + Len(last_call'.fused)
                   - Len(last_call'.deintegrated)
     /\ (WindowNeeded /\ last_call'.cleared) =>
          /\ IsSuffix(CloudsOf(Window'), last_call'.fused)
          /\ Len(Window') < Len(Window) + Len(last_call'.fused) + 1
     /\ ~WindowNeeded => Window' = <<>>]_vars

\* C25 witness: with no threshold set two messages were fused by one call
\* and the window is empty
C25_Witness ==
  /\ ~WindowNeeded
  /\ Len(last_call.fused) = 2
  /\ Cardinality(LiveContributions(tsdf_map_)) >= 2
  /\ Window = <<>>

\* C26: a call of the clear_map service leaves the map, the mesh and the
\* window empty and returns true; the two ingest queues, the times of their
\* last messages, the submap counter, the submap reference and the ICP
\* correction are unchanged.
C26_ClearMapEmptiesMapMeshWindowOnly ==
  [][Called("clearMapCallback") =>
       /\ tsdf_map_' = EmptyLayer
       /\ mesh_layer_' = {}
       /\ Window' = <<>>
       /\ last_call'.result
       /\ UNCHANGED <<pointcloud_queue_, freespace_pointcloud_queue_,
                      last_msg_time_ptcloud_,
                      last_msg_time_freespace_ptcloud_, submap_counter_,
                      Reference, icp_corrected_transform_>>]_vars

\* C26 witness: the map was cleared after a submap had been finished, with
\* the ICP correction not zero
C26_Witness ==
  /\ last_call.op = "clearMapCallback"
  /\ last_call.cleared
  /\ last_msg_time_ptcloud_ > 0
  /\ ~last_published_submap_position_.nan
  /\ submap_counter_ > 0
  /\ icp_corrected_transform_ # 0
  /\ tsdf_map_ = EmptyLayer

\* the packets of w are those of the last Len(w) point clouds integrated
LastIntegrated(w, n) ==
  \A i \in 1..Len(w) : w[i].ptcloud_C = n - Len(w) + i

\* C27: the window always holds the packets of the point clouds integrated
\* last, in the order they were integrated; a call of
\* servicePointcloudDeintegrationQueue hands the integrator, one by one from
\* the front, exactly the packets it removes, as they were stored, and takes
\* exactly their contributions out of the map; no other call deintegrates;
\* so a packet that was deintegrated is never in the window again.
C27_EvictedOldestFirstAsStored ==
  [][/\ LastIntegrated(Window', num_msgs')
     /\ ServiceCalled =>
          /\ last_call'.deintegrated \o Window' = Window
          /\ LiveContributions(tsdf_map_')
               = LiveContributions(tsdf_map_)
                   \ {ContributionOf(p) : p \in Range(last_call'.deintegrated)}
          /\ Cardinality(LiveContributions(tsdf_map_'))
               = Cardinality(LiveContributions(tsdf_map_))
                   - Len(last_call'.deintegrated)
     /\ ~ServiceCalled => last_call'.deintegrated = <<>>
     /\ Called("integratePointcloud") =>
          /\ Len(Window') = Len(Window) + 1
          /\ SubSeq(Window', 1, Len(Window)) = Window]_vars

\* C27 witness: one call deintegrated the packets of the first and the
\* second point cloud, in this order, and left the third
C27_Witness ==
  /\ last_call.op = "servicePointcloudDeintegrationQueue"
  /\ CloudsOf(last_call.deintegrated) = <<1, 2>>
  /\ CloudsOf(Window) = <<3>>
  /\ Cardinality(LiveContributions(tsdf_map_)) = 1

\* C28 as claimed: a publishMap call made after a new subscriber connected
\* to tsdf_map_out, with a subscriber to publish to, publishes one layer
\* message, a full snapshot that carries the reset action.
C28_Claimed_NewSubscriberGetsFullMapWithReset ==
  [][(/\ Called("publishMapEvent")
      /\ tsdf_map_pub_joined
      /\ 0 < tsdf_map_pub_subscribers) =>
       /\ Len(OutputsOf("tsdf_map")) = 1
       /\ ~OutputsOf("tsdf_map")[1].only_updated
       /\ OutputsOf("tsdf_map")[1].action = "kReset"]_vars

\* the time of the last message admitted on a stream
LastMsgTime(is_freespace_pointcloud) ==
  IF is_freespace_pointcloud THEN last_msg_time_freespace_ptcloud_
  ELSE last_msg_time_ptcloud_

\* the packets of the window that came from a stream
WindowOf(is_freespace_pointcloud) ==
  SelectSeq(Window,
            LAMBDA packet :
              packet.is_freespace_pointcloud = is_freespace_pointcloud)

\* C29: with min_time_between_msgs >= 0, on either stream: the messages in
\* the ingest queue have strictly increasing stamps, none later than the
\* last admitted one; the packets of the stream in the window have strictly
\* increasing timestamps, all earlier than the queued stamps; and a message
\* that arrives with a stamp equal to or earlier than the last admitted one
\* is rejected, changing nothing.
C29_AdmittedStampsStrictlyIncrease ==
  min_time_between_msgs_ >= 0 =>
    \A fs \in BOOLEAN :
      LET queue == Queue(Server, fs)
          window == WindowOf(fs)
      IN /\ \A i \in 1..(Len(queue) - 1) : queue[i].stamp < queue[i + 1].stamp
         /\ \A i \in 1..Len(queue) : queue[i].stamp <= LastMsgTime(fs)
         /\ StrictlyIncreasing(window)
         /\ \A i \in 1..Len(window) :
              /\ window[i].timestamp <= LastMsgTime(fs)
              /\ \A j \in 1..Len(queue) :
                   window[i].timestamp < queue[j].stamp
         /\ \A msg \in NewMsgs :
              msg.stamp <= LastMsgTime(fs) => enqueue(Server, msg, fs) = Server

\* C29 witness: with min_time_between_msgs = 0 the window holds a packet of
\* the stream, a later message waits in the queue, and a message was
\* rejected, its stamp being no later than that of the waiting one
C29_Witness ==
  /\ min_time_between_msgs_ = 0
  /\ last_call.op = "insertPointcloud"
  /\ ~last_call.admitted
  /\ Len(WindowOf(FALSE)) = 1
  /\ pointcloud_queue_ # <<>>
  /\ WindowOf(FALSE)[1].timestamp < Head(pointcloud_queue_).stamp

\* the trajectories of the submaps a call published, one after the other
RECURSIVE TrajectoriesOf(_)
TrajectoriesOf(submaps) ==
  IF submaps = <<>> THEN <<>>
  ELSE Head(submaps).trajectory \o TrajectoriesOf(Tail(submaps))

\* C30: with a submap threshold and no deintegration threshold set and a
\* subscriber of the submap topic, a call of insertPointcloud publishes one
\* submap for each submap it finishes, none with an empty trajectory; the
\* trajectories, in order, followed by the window the call leaves, are the
\* window the call found followed by the messages it fused, each exactly
\* once; the last pose of the last trajectory is that of the message that
\* finished the submap, and the window holds only what was fused after it.
C30_TrajectoriesPartitionTheFusedMessages ==
  [][(/\ Called("insertPointcloud")
      /\ submappingEnabled
      /\ ~SomeDeintegrationBoundSet
      /\ 0 < submap_pub_subscribers) =>
       LET submaps == OutputsOf("submap")
           poses == TrajectoriesOf(submaps)
           all == poses \o Poses(Window')
           fused == last_call'.fused
       IN /\ Len(submaps) = submap_counter_' - submap_counter_
          /\ \A i \in 1..Len(submaps) : submaps[i].trajectory # <<>>
          /\ Len(all) = Len(Window) + Len(fused)
          /\ SubSeq(all, 1, Len(Window)) = Poses(Window)
          /\ \A i \in 1..(Len(all) - 1) : all[i].stamp < all[i + 1].stamp
          /\ submaps # <<>> =>
               /\ Last(poses).stamp = last_published_submap_timestamp_'
               /\ IsSuffix(CloudsOf(Window'), fused)
               /\ \A i \in 1..Len(Window') :
                    Window'[i].timestamp > last_published_submap_timestamp_'
               /\ Len(Window') < Len(fused)]_vars

\* C30 witness: a call fused two messages; the first finished a submap with
\* a trajectory of two poses, the second is alone in the window
C30_Witness ==
  /\ last_call.op = "insertPointcloud"
  /\ ~SomeDeintegrationBoundSet
  /\ Len(last_call.fused) = 2
  /\ \E i \in 1..Len(last_call.outputs) :
       /\ last_call.outputs[i].kind = "submap"
       /\ Len(last_call.outputs[i].trajectory) = 2
       /\ last_call.outputs[i].trajectory[2].stamp
            = last_published_submap_timestamp_
  /\ CloudsOf(Window) = <<last_call.fused[2]>>

\* the ids of the messages waiting in the ingest queue
QueuedIds == {pointcloud_queue_[i].id : i \in 1..Len(pointcloud_queue_)}

\* the messages after which the sensor sends as many further messages as
\* the queue can hold
FollowedByAQueueFull == 1..(MaxBacklog - kMaxQueueSize + 1)

\* C31: while messages keep being admitted, a message admitted to the ingest
\* queue does not stay in it forever, whether or not its transform can ever
\* be looked up: every message that is followed by a queue full of further
\* messages is eventually out of the queue.
C31_NoMessageWaitsForever ==
  \A id \in FollowedByAQueueFull :
    (id \in QueuedIds) ~> (id \notin QueuedIds)

\* C31 witness: no transform was ever looked up; the first message has left
\* the queue, which is as long as a call leaves it at most, the second
\* message at its head
C31_Witness ==
  /\ last_call.op = "insertPointcloud"
  /\ last_call.fused = <<>>
  /\ LiveContributions(tsdf_map_) = {}
  /\ num_msgs = kMaxQueueSize
  /\ Len(pointcloud_queue_) = kMaxQueueSize - 1
  /\ Head(pointcloud_queue_).id = 2
  /\ 1 \notin QueuedIds

====
